---------------------------- MODULE Spec2Model ----------------------------
(***************************************************************************)
(* A model of the manifest pipeline (verify_media_archive.py,              *)
(* dedupe_archive_from_verified_manifest.py, apply_deletion_manifest.py)   *)
(* and of the canonical resolver (map_originals.py) of home_automation.    *)
(*                                                                         *)
(* One behaviour follows one program over one input: Init chooses the      *)
(* program (stage), its command-line arguments, its input manifest and the *)
(* files on disk; the actions are the steps of the program's main().  An   *)
(* invocation may be killed between two rows, and the same command may be  *)
(* invoked again (the state file and the output manifests persist).        *)
(***************************************************************************)
EXTENDS Integers, Sequences, FiniteSets, TLC

VARIABLES
    stage,          \* which program this behaviour runs
    args,           \* the parsed command line (argparse namespace)
    manifest,       \* the rows of the input CSV, in file order
    fs,             \* the filesystem: path -> file state
    cursor_file,    \* the --state-file: [exists, cursor]
    pc,             \* position of the running invocation
    loc,            \* the local variables of main()
    invocations,    \* how many times the command was started
    exit_status,    \* how each invocation ended, in order
    verified_out,   \* Verify: rows of --verified-out
    unverified_out, \* Verify: rows of --unverified-out
    results_out,    \* Apply-Deletion: rows of --results-out
    keep_out,       \* Dedupe: rows of --keep-out
    dupes_out,      \* Dedupe: rows of --dupes-out
    before,         \* history: the durable state when the invocation started
    history,        \* history: every (invocation, row index, outcome) so far
    db,             \* the content store: hash groups, members, provenance
    call,           \* a function under test: its arguments
    returned        \* a function under test: what it returned

vars == <<stage, args, manifest, fs, cursor_file, pc, loc, invocations,
          exit_status, verified_out, unverified_out, results_out, keep_out,
          dupes_out, before, history, db, call, returned>>

inputs == <<stage, args, manifest>>
pure == <<call, returned>>
verify_outs == <<verified_out, unverified_out>>
dedupe_outs == <<keep_out, dupes_out>>

\* What an invocation can change and what survives it.
Durable ==
    [fs |-> fs, cursor_file |-> cursor_file, verified_out |-> verified_out,
     unverified_out |-> unverified_out, results_out |-> results_out,
     keep_out |-> keep_out, dupes_out |-> dupes_out]

---------------------------------------------------------------------------
(* Bounds of the model. *)

MaxRows == 2          \* longest input manifest
MaxLimit == 2         \* largest --limit
MaxInvocations == 2   \* invocations of the same command in one behaviour

---------------------------------------------------------------------------
(* Helpers. *)

SeqsUpTo(S, n) == UNION {[1..k -> S] : k \in 0..n}

\* The elements of a set of numbers in ascending order.
RECURSIVE Ascending(_)
Ascending(S) ==
    IF S = {} THEN <<>>
    ELSE LET m == CHOOSE x \in S : \A y \in S : x <= y
         IN  <<m>> \o Ascending(S \ {m})

\* The manifests that keep at most n rows of pool, in the order of pool.
Selections(pool, n) ==
    {[i \in 1..Cardinality(S) |-> pool[Ascending(S)[i]]] :
        S \in {T \in SUBSET (1..Len(pool)) : Cardinality(T) <= n}}

Max(a, b) == IF a >= b THEN a ELSE b

Contains(seq, x) == \E i \in 1..Len(seq) : seq[i] = x

\* How the latest invocation ended ("running" while it runs).
LastExit == IF invocations = 0 THEN "none" ELSE exit_status[invocations]

NoCursor == [exists |-> FALSE, cursor |-> 0]

\* The manifest stages do not open the content store, and no function is
\* under test while a program runs.
NoDb == [files |-> <<>>, hash_groups |-> <<>>, members |-> {}, provenance |-> <<>>]
NoCall == <<>>
NoReturn == <<>>

\* _load_state: None when there is no --state-file or the file is absent.
\* The callers of Verify and Apply-Deletion use "state_cursor or 0".
LoadStateOrZero(use_state_file, file) ==
    IF use_state_file /\ file.exists THEN file.cursor ELSE 0

\* _save_state: writes {"cursor": cursor} when a --state-file was given.
SaveState(use_state_file, file, cursor) ==
    IF use_state_file THEN [exists |-> TRUE, cursor |-> cursor] ELSE file

\* _ensure_writer: mode "a" keeps the rows already in the file, mode "w"
\* truncates it (the header line is not modelled).
EnsureWriter(rows, append) == IF append THEN rows ELSE <<>>

---------------------------------------------------------------------------
(* Files on disk.  A file state is what exists(), stat() and a full read   *)
(* of the file return.                                                     *)

Absent == [exists |-> FALSE, size |-> 0, digest |-> "", readable |-> FALSE]

\* fs lists the files that exist; every other path is absent.
Lookup(disk, p) == IF p \in DOMAIN disk THEN disk[p] ELSE Absent

File(size, digest, readable) ==
    [exists |-> TRUE, size |-> size, digest |-> digest, readable |-> readable]

\* _hash_file: <<hexdigest, error note>>; the digest is None (here "") when
\* the read raises.  The note is str(exc), which for an I/O error is not
\* empty.
_hash_file(f) ==
    IF f.readable THEN <<f.digest, "">> ELSE <<"", "read error">>

\* stat() after a successful exists(): exists() is itself a stat() of the
\* same path, so on a filesystem nobody else is changing it cannot raise.
StatRaises(f) == FALSE

---------------------------------------------------------------------------
(* Paths (pathlib, Windows flavour: the archive lives on drive letters).   *)
(* A name is a sequence of one-character strings, so that stems can be     *)
(* matched, measured, extended and compared character by character.        *)

NoPath == [drive |-> <<>>, rooted |-> FALSE, dir |-> <<>>, stem |-> <<>>, ext |-> <<>>]

WinPath(drive, dir, stem, ext) ==
    [drive |-> drive, rooted |-> TRUE, dir |-> dir, stem |-> stem, ext |-> ext]

Digits == <<"0", "1", "2", "3", "4", "5", "6", "7", "8", "9">>

IsDigit(c) == c \in {"0", "1", "2", "3", "4", "5", "6", "7", "8", "9"}

UpperCase == <<"A", "B", "C", "D", "E", "F", "G", "H", "I", "J", "K", "L", "M",
               "N", "O", "P", "Q", "R", "S", "T", "U", "V", "W", "X", "Y", "Z">>
LowerCase == <<"a", "b", "c", "d", "e", "f", "g", "h", "i", "j", "k", "l", "m",
               "n", "o", "p", "q", "r", "s", "t", "u", "v", "w", "x", "y", "z">>

\* The characters the model uses, in code point order (str comparison).
CodePointOrder ==
    <<" ", "(", ")", ".">> \o Digits \o <<":">> \o UpperCase
    \o <<"\\", "_">> \o LowerCase

Ord(c) == CHOOSE i \in 1..Len(CodePointOrder) : CodePointOrder[i] = c

Letters == {UpperCase[i] : i \in 1..26} \cup {LowerCase[i] : i \in 1..26}

\* str.isalpha() of one character.
IsAlpha(c) == c \in Letters

\* re.IGNORECASE: both sides are compared in upper case.
ToUpper(c) ==
    IF c \in {LowerCase[i] : i \in 1..26}
    THEN UpperCase[CHOOSE i \in 1..26 : LowerCase[i] = c]
    ELSE c

\* a < b for two Python strings.
StrLess(a, b) ==
    LET shorter == IF Len(a) <= Len(b) THEN Len(a) ELSE Len(b)
        differ == {k \in 1..shorter : a[k] # b[k]}
    IN  IF differ = {} THEN Len(a) < Len(b)
        ELSE LET k == CHOOSE i \in differ : \A j \in differ : i <= j
             IN  Ord(a[k]) < Ord(b[k])

RECURSIVE JoinNames(_)
JoinNames(names) ==
    IF names = <<>> THEN <<>>
    ELSE <<"\\">> \o names[1] \o JoinNames(Tail(names))

\* str(path) of a Windows path.
PathStr(path) ==
    path.drive \o JoinNames(path.dir) \o <<"\\">> \o path.stem \o path.ext

Dir2020 == <<"2", "0", "2", "0">>
Dir2021 == <<"2", "0", "2", "1">>
ExtJpg == <<".", "j", "p", "g">>

\* pathlib's "/" : a segment with its own drive replaces the left side, a
\* rooted segment keeps only the left side's drive, a relative one is
\* appended.
JoinPath(left, right) ==
    IF right.drive # <<>> THEN right
    ELSE IF right.rooted
    THEN [right EXCEPT !.drive = left.drive]
    ELSE [drive |-> left.drive, rooted |-> left.rooted,
          dir |-> left.dir \o right.dir, stem |-> right.stem, ext |-> right.ext]

\* home_automation_common.get_unique_destination_path: the path itself when
\* nothing is there, else the first "stem (k)" that is free.
get_unique_destination_path(path, disk) ==
    IF ~Lookup(disk, path).exists THEN path
    ELSE LET Numbered(k) ==
                 [path EXCEPT !.stem = @ \o <<" ", "(", Digits[k + 1], ")">>]
             k == CHOOSE n \in 1..9 :
                      /\ ~Lookup(disk, Numbered(n)).exists
                      /\ \A m \in 1..(n - 1) : Lookup(disk, Numbered(m)).exists
         IN  Numbered(k)

\* shutil.move / Path.unlink on the modelled filesystem.
RemoveFile(disk, p) == [q \in DOMAIN disk \ {p} |-> disk[q]]

MoveFile(disk, from, to) ==
    [q \in (DOMAIN disk \ {from}) \cup {to} |->
        IF q = to THEN disk[from] ELSE disk[q]]

---------------------------------------------------------------------------
(* Verify: verify_media_archive.py *)

VerifyDisk ==
    [p \in {"S_ok", "S_unreadable",
            "D_same", "D_bigger", "D_other", "D_unreadable"} |->
        CASE p = "S_ok"         -> File(1, "h1", TRUE)
          [] p = "S_unreadable" -> File(1, "h1", FALSE)
          [] p = "D_same"       -> File(1, "h1", TRUE)
          [] p = "D_bigger"     -> File(2, "h2", TRUE)
          [] p = "D_other"      -> File(1, "h3", TRUE)
          [] p = "D_unreadable" -> File(1, "h1", FALSE)]

VerifyPairs ==
    {<<"S_ok", "D_same">>, <<"S_ok", "D_missing">>, <<"S_ok", "D_bigger">>,
     <<"S_ok", "D_other">>, <<"S_ok", "D_unreadable">>,
     <<"S_missing", "D_same">>, <<"S_missing", "D_missing">>,
     <<"S_unreadable", "D_same">>}

\* file_size_bytes of the CSV: a number, or -1 for a cell that is not all
\* digits (str.isdigit() is False).
VerifyRows ==
    {[run_id |-> "r1", source_path |-> p[1], destination_path |-> p[2],
      file_size_bytes |-> 1] : p \in VerifyPairs}
    \cup
    {[run_id |-> "r2", source_path |-> "S_ok", destination_path |-> "D_same",
      file_size_bytes |-> z] : z \in {1, -1}}

\* A _verify_row that stops at the size comparison and never hashes.
_verify_row_size_only(row, disk) ==
    LET src == Lookup(disk, row.source_path)
        dst == Lookup(disk, row.destination_path)
    IN  IF ~src.exists THEN <<"unverified", <<"source missing">>, "", "">>
        ELSE IF ~dst.exists
        THEN <<"unverified", <<"destination missing">>, "", "">>
        ELSE IF src.size # dst.size
        THEN <<"unverified", <<"size mismatch">>, "", "">>
        ELSE <<"verified", <<>>, src.digest, src.digest>>

\* _verify_row(row): <<status, notes, source_hash, destination_hash>>.
_verify_row(row, disk) ==
    LET src == Lookup(disk, row.source_path)
        dst == Lookup(disk, row.destination_path)
        csv == IF row.file_size_bytes >= 0
               THEN (IF row.file_size_bytes # src.size
                     THEN <<"source size mismatch vs csv">> ELSE <<>>)
                    \o (IF row.file_size_bytes # dst.size
                        THEN <<"destination size mismatch vs csv">> ELSE <<>>)
               ELSE <<>>
        sh == _hash_file(src)
        dh == _hash_file(dst)
    IN  IF ~src.exists THEN <<"unverified", <<"source missing">>, "", "">>
        ELSE IF ~dst.exists
        THEN <<"unverified", <<"destination missing">>, "", "">>
        ELSE IF StatRaises(src) \/ StatRaises(dst)
        THEN <<"unverified", <<"stat error">>, "", "">>
        ELSE IF src.size # dst.size
        THEN <<"unverified", csv \o <<"size mismatch">>, "", "">>
        ELSE IF sh[2] # ""
        THEN <<"unverified", csv \o <<"source hash error">>, sh[1], "">>
        ELSE IF dh[2] # ""
        THEN <<"unverified", csv \o <<"destination hash error">>, sh[1], dh[1]>>
        ELSE IF sh[1] # dh[1]
        THEN <<"unverified", csv \o <<"hash mismatch">>, sh[1], dh[1]>>
        ELSE <<"verified", csv, sh[1], dh[1]>>

\* The state every program starts from, before its first invocation.
InitCommon ==
    /\ cursor_file = NoCursor
    /\ pc = "idle"
    /\ invocations = 0
    /\ exit_status = <<>>
    /\ verified_out = <<>>
    /\ unverified_out = <<>>
    /\ results_out = <<>>
    /\ keep_out = <<>>
    /\ dupes_out = <<>>
    /\ before = Durable
    /\ history = {}
    /\ db = NoDb
    /\ call = NoCall
    /\ returned = NoReturn

\* The same for a function under test: nothing runs and nothing is stored.
InitCommon_store ==
    /\ cursor_file = NoCursor
    /\ pc = "idle"
    /\ invocations = 0
    /\ exit_status = <<>>
    /\ verified_out = <<>>
    /\ unverified_out = <<>>
    /\ results_out = <<>>
    /\ keep_out = <<>>
    /\ dupes_out = <<>>
    /\ before = <<>>
    /\ history = {}
    /\ db = NoDb

InitVerify ==
    /\ stage = "verify"
    /\ args \in [limit : 1..MaxLimit, offset : {0, 1}, state_file : BOOLEAN]
    /\ manifest \in SeqsUpTo(VerifyRows, MaxRows)
    /\ fs = VerifyDisk
    /\ loc = [idx |-> 0, start_offset |-> 0, processed |-> 0, next_cursor |-> 0]
    /\ InitCommon

\* main(), lines 166-201: load the cursor, open both writers.  There is no
\* --expected-run-id argument and no pass over the rows before the loop.
VerifyStart ==
    /\ stage = "verify"
    /\ pc = "idle"
    /\ invocations < MaxInvocations
    /\ invocations' = invocations + 1
    /\ before' = Durable
    /\ LET start_offset ==
               Max(args.offset, LoadStateOrZero(args.state_file, cursor_file))
       IN  loc' = [idx |-> 0, start_offset |-> start_offset,
                   processed |-> 0, next_cursor |-> start_offset]
    /\ verified_out' = EnsureWriter(verified_out, args.state_file)
    /\ unverified_out' = EnsureWriter(unverified_out, args.state_file)
    /\ pc' = "loop"
    /\ exit_status' = Append(exit_status, "running")
    /\ UNCHANGED <<inputs, db, pure, fs, cursor_file, results_out, dedupe_outs, history>>

\* One iteration of the for loop over the reader, lines 207-251: a row
\* before the start offset is skipped.
VerifySkipRow ==
    /\ stage = "verify"
    /\ pc = "loop"
    /\ loc.idx < Len(manifest)
    /\ loc.idx < loc.start_offset
    /\ loc' = [loc EXCEPT !.idx = @ + 1]
    /\ UNCHANGED <<inputs, db, pure, fs, cursor_file, pc, invocations, exit_status,
                   verify_outs, results_out, dedupe_outs, before, history>>

\* Lines 226-251: the row's outcome is written to one of the two manifests
\* and the counters advance.  r is what _verify_row returned.
VerifyWriteRow(r) ==
    /\ LET row == manifest[loc.idx + 1]
           output_row ==
               [run_id |-> row.run_id,
                source_path |-> row.source_path,
                destination_path |-> row.destination_path,
                file_size_bytes |-> row.file_size_bytes,
                source_hash |-> r[3],
                destination_hash |-> r[4],
                verification_status |-> r[1],
                notes |-> r[2]]
       IN  /\ IF r[1] = "verified"
              THEN /\ verified_out' = Append(verified_out, output_row)
                   /\ UNCHANGED unverified_out
              ELSE /\ unverified_out' = Append(unverified_out, output_row)
                   /\ UNCHANGED verified_out
           /\ history' = history \cup
                  {[run |-> invocations, idx |-> loc.idx, outcome |-> r[1]]}
    /\ loc' = [loc EXCEPT !.idx = @ + 1, !.processed = @ + 1,
                          !.next_cursor = loc.idx + 1]
    /\ UNCHANGED <<inputs, db, pure, fs, cursor_file, pc, invocations, exit_status,
                   results_out, dedupe_outs, before>>

\* A Verify whose verdict is carried over from earlier rows: once a row
\* was unverified, every row after it is unverified too.
VerifyProcessRow_carried ==
    /\ stage = "verify"
    /\ pc = "loop"
    /\ loc.idx < Len(manifest)
    /\ loc.idx >= loc.start_offset
    /\ loc.processed < args.limit
    /\ VerifyWriteRow(
           IF \E h \in history : h.outcome = "unverified"
           THEN <<"unverified", <<"hash mismatch">>, "", "">>
           ELSE _verify_row(manifest[loc.idx + 1], fs))

VerifyProcessRow ==
    /\ stage = "verify"
    /\ pc = "loop"
    /\ loc.idx < Len(manifest)
    /\ loc.idx >= loc.start_offset
    /\ loc.processed < args.limit
    /\ VerifyWriteRow(_verify_row(manifest[loc.idx + 1], fs))

\* The loop ends (end of file, or the break at lines 210-211), the writers
\* are closed and _save_state runs, line 257.
VerifyFinish ==
    /\ stage = "verify"
    /\ pc = "loop"
    /\ \/ loc.idx >= Len(manifest)
       \/ loc.idx >= loc.start_offset /\ loc.processed >= args.limit
    /\ cursor_file' = SaveState(args.state_file, cursor_file, loc.next_cursor)
    /\ pc' = "idle"
    /\ exit_status' = [exit_status EXCEPT ![invocations] = "ok"]
    /\ UNCHANGED <<inputs, db, pure, fs, loc, invocations, verify_outs, results_out,
                   dedupe_outs, before, history>>

\* The process is killed, or an exception leaves main(), between two rows:
\* the rows written so far stay in the output files (the finally clause
\* closes them) and _save_state, which follows the loop, never runs.
Kill ==
    /\ pc = "loop"
    /\ pc' = "idle"
    /\ exit_status' = [exit_status EXCEPT ![invocations] = "killed"]
    /\ UNCHANGED <<inputs, db, pure, fs, cursor_file, loc, invocations, verify_outs,
                   results_out, dedupe_outs, before, history>>

NextVerify ==
    \/ VerifyStart
    \/ VerifySkipRow
    \/ VerifyProcessRow
    \/ VerifyFinish
    \/ Kill

SpecVerify == InitVerify /\ [][NextVerify]_vars

---------------------------------------------------------------------------
(* Apply-Deletion: apply_deletion_manifest.py *)

QuarantineRoot == WinPath(<<"Q", ":">>, <<<<"q">>>>, <<>>, <<>>)

ApplyA == WinPath(<<"C", ":">>, <<Dir2020>>, <<"a">>, ExtJpg)
ApplyB == WinPath(<<"D", ":">>, <<Dir2020>>, <<"a">>, ExtJpg)
ApplyGone == WinPath(<<"C", ":">>, <<Dir2020>>, <<"g">>, ExtJpg)

ApplyDisk ==
    [p \in {ApplyA, ApplyB} |->
        IF p = ApplyA THEN File(1, "h1", TRUE) ELSE File(1, "h2", TRUE)]

\* The columns of the verified manifest that Apply-Deletion reads.  An
\* empty run_id cell is "".
ApplyRows ==
    <<[run_id |-> "r2", verification_status |-> "verified", source_path |-> ApplyA],
      [run_id |-> "r1", verification_status |-> "verified", source_path |-> ApplyA],
      [run_id |-> "r1", verification_status |-> "verified", source_path |-> ApplyB],
      [run_id |-> "r1", verification_status |-> "verified", source_path |-> ApplyGone],
      [run_id |-> "", verification_status |-> "verified", source_path |-> ApplyB],
      [run_id |-> "r1", verification_status |-> "unverified", source_path |-> ApplyA]>>

ApplyArgs ==
    {a \in [limit : 1..MaxLimit, offset : {0, 1}, state_file : BOOLEAN,
            dry_run : BOOLEAN, delete_permanently : BOOLEAN,
            yes_really_delete : BOOLEAN, expected_run_id : {"auto", "r1"}] :
        a.yes_really_delete => a.delete_permanently}

\* _relative_to_root: a path with a drive is made relative to its anchor,
\* a path without one is returned as it is.
_relative_to_root(path) ==
    IF path.drive # <<>>
    THEN [path EXCEPT !.drive = <<>>, !.rooted = FALSE]
    ELSE path

\* A validation pass that stops after the first row of the batch.
_prevalidate_run_ids_first_row(rows, expected_run_id, start_offset, limit) ==
    LET batch == {i \in 0..(Len(rows) - 1) : i = start_offset /\ limit > 0}
    IN  <<expected_run_id,
          {<<i, "missing run_id">> : i \in {j \in batch : rows[j + 1].run_id = ""}}
          \cup
          {<<i, "expected other">> :
              i \in {j \in batch : /\ rows[j + 1].run_id # ""
                                    /\ expected_run_id # "auto"
                                    /\ rows[j + 1].run_id # expected_run_id}}>>

\* _prevalidate_run_ids: <<inferred run id ("" for None), mismatches>> over
\* the rows start_offset <= idx < start_offset + limit.
_prevalidate_run_ids(rows, expected_run_id, start_offset, limit) ==
    LET batch == {i \in 0..(Len(rows) - 1) :
                      i >= start_offset /\ i < start_offset + limit}
        named == {i \in batch : rows[i + 1].run_id # ""}
        first_run_id ==
            IF named = {} THEN ""
            ELSE rows[(CHOOSE i \in named : \A j \in named : i <= j) + 1].run_id
        mismatches ==
            {<<i, "missing run_id">> : i \in batch \ named}
            \cup
            {<<i, "expected other">> :
                i \in {j \in named : /\ expected_run_id # "auto"
                                     /\ rows[j + 1].run_id # expected_run_id}}
    IN  <<IF expected_run_id = "auto" THEN first_run_id ELSE expected_run_id,
          mismatches>>

\* A quarantine move straight to <quarantine>/<relative path>, whatever is
\* there.
_process_row_overwriting(row, a, disk, io_fails) ==
    IF /\ row.verification_status = "verified"
       /\ Lookup(disk, row.source_path).exists
       /\ ~a.delete_permanently /\ ~a.dry_run /\ ~io_fails
    THEN [action |-> "quarantine",
          path |-> JoinPath(QuarantineRoot, _relative_to_root(row.source_path)),
          notes |-> <<>>,
          fs |-> MoveFile(disk, row.source_path,
                     JoinPath(QuarantineRoot, _relative_to_root(row.source_path)))]
    ELSE [action |-> "skipped", path |-> NoPath, notes |-> <<>>, fs |-> disk]

\* _process_row: the action, the quarantine path, the notes and the
\* filesystem it leaves.  io_fails: unlink or move raises.
_process_row(row, a, disk, io_fails) ==
    LET source_path == row.source_path
        target == get_unique_destination_path(
                      JoinPath(QuarantineRoot, _relative_to_root(source_path)),
                      disk)
    IN  IF row.verification_status # "verified"
        THEN [action |-> "skipped", path |-> NoPath,
              notes |-> <<"not verified">>, fs |-> disk]
        ELSE IF ~Lookup(disk, source_path).exists
        THEN [action |-> "error", path |-> NoPath,
              notes |-> <<"source missing">>, fs |-> disk]
        ELSE IF a.delete_permanently
        THEN IF a.dry_run
             THEN [action |-> "delete", path |-> NoPath,
                   notes |-> <<"dry run: delete">>, fs |-> disk]
             ELSE IF io_fails
             THEN [action |-> "error", path |-> NoPath,
                   notes |-> <<"delete failed">>, fs |-> disk]
             ELSE [action |-> "delete", path |-> NoPath, notes |-> <<>>,
                   fs |-> RemoveFile(disk, source_path)]
        ELSE IF a.dry_run
        THEN [action |-> "quarantine", path |-> target,
              notes |-> <<"dry run: quarantine">>, fs |-> disk]
        ELSE IF io_fails
        THEN [action |-> "error", path |-> target,
              notes |-> <<"quarantine failed">>, fs |-> disk]
        ELSE [action |-> "quarantine", path |-> target, notes |-> <<>>,
              fs |-> MoveFile(disk, source_path, target)]

InitApply ==
    /\ stage = "apply"
    /\ args \in ApplyArgs
    /\ manifest \in Selections(ApplyRows, MaxRows)
    /\ fs = ApplyDisk
    /\ loc = [idx |-> 0, start_offset |-> 0, processed |-> 0, next_cursor |-> 0]
    /\ InitCommon

ApplyStartOffset_ignoring_state == args.offset

ApplyStartOffset ==
    Max(args.offset, LoadStateOrZero(args.state_file, cursor_file))

\* A refusal that comes too late: the first row's file is already deleted.
ApplyRefuse_after_first_row ==
    /\ stage = "apply"
    /\ pc = "idle"
    /\ invocations < MaxInvocations
    /\ args.delete_permanently /\ ~args.yes_really_delete
    /\ invocations' = invocations + 1
    /\ before' = Durable
    /\ fs' = IF manifest # <<>> /\ manifest[1].source_path \in DOMAIN fs
             THEN RemoveFile(fs, manifest[1].source_path)
             ELSE fs
    /\ exit_status' = Append(exit_status, "refused")
    /\ UNCHANGED <<inputs, db, pure, cursor_file, pc, loc, verify_outs, results_out,
                   dedupe_outs, history>>

\* main(), lines 166-167: SystemExit before anything is read or opened.
ApplyRefuse ==
    /\ stage = "apply"
    /\ pc = "idle"
    /\ invocations < MaxInvocations
    /\ args.delete_permanently /\ ~args.yes_really_delete
    /\ invocations' = invocations + 1
    /\ before' = Durable
    /\ exit_status' = Append(exit_status, "refused")
    /\ UNCHANGED <<inputs, db, pure, fs, cursor_file, pc, loc, verify_outs, results_out,
                   dedupe_outs, history>>

\* main(), lines 172-187: the pass over the batch found a mismatch.
ApplyAbortRunId ==
    /\ stage = "apply"
    /\ pc = "idle"
    /\ invocations < MaxInvocations
    /\ ~(args.delete_permanently /\ ~args.yes_really_delete)
    /\ _prevalidate_run_ids(manifest, args.expected_run_id, ApplyStartOffset,
                            args.limit)[2] # {}
    /\ invocations' = invocations + 1
    /\ before' = Durable
    /\ exit_status' = Append(exit_status, "run_id_mismatch")
    /\ UNCHANGED <<inputs, db, pure, fs, cursor_file, pc, loc, verify_outs, results_out,
                   dedupe_outs, history>>

\* main(), lines 172-217: no mismatch; the results writer is opened.
ApplyStart ==
    /\ stage = "apply"
    /\ pc = "idle"
    /\ invocations < MaxInvocations
    /\ ~(args.delete_permanently /\ ~args.yes_really_delete)
    /\ _prevalidate_run_ids(manifest, args.expected_run_id, ApplyStartOffset,
                            args.limit)[2] = {}
    /\ invocations' = invocations + 1
    /\ before' = Durable
    /\ results_out' = EnsureWriter(results_out, args.state_file)
    /\ loc' = [idx |-> 0, start_offset |-> ApplyStartOffset,
               processed |-> 0, next_cursor |-> ApplyStartOffset]
    /\ pc' = "loop"
    /\ exit_status' = Append(exit_status, "running")
    /\ UNCHANGED <<inputs, db, pure, fs, cursor_file, verify_outs, dedupe_outs, history>>

\* The for loop, lines 223-252.
ApplySkipRow ==
    /\ stage = "apply"
    /\ pc = "loop"
    /\ loc.idx < Len(manifest)
    /\ loc.idx < loc.start_offset
    /\ loc' = [loc EXCEPT !.idx = @ + 1]
    /\ UNCHANGED <<inputs, db, pure, fs, cursor_file, pc, invocations, exit_status,
                   verify_outs, results_out, dedupe_outs, before, history>>

ApplyProcessRow ==
    /\ stage = "apply"
    /\ pc = "loop"
    /\ loc.idx < Len(manifest)
    /\ loc.idx >= loc.start_offset
    /\ loc.processed < args.limit
    /\ \E io_fails \in BOOLEAN :
         LET row == manifest[loc.idx + 1]
             r == _process_row(row, args, fs, io_fails)
         IN  /\ fs' = r.fs
             /\ results_out' = Append(results_out,
                    [run_id |-> row.run_id,
                     source_path |-> row.source_path,
                     action_taken |-> r.action,
                     destination_quarantine_path |-> r.path,
                     notes |-> r.notes])
             /\ history' = history \cup
                    {[run |-> invocations, idx |-> loc.idx, outcome |-> r.action]}
    /\ loc' = [loc EXCEPT !.idx = @ + 1, !.processed = @ + 1,
                          !.next_cursor = loc.idx + 1]
    /\ UNCHANGED <<inputs, db, pure, cursor_file, pc, invocations, exit_status,
                   verify_outs, dedupe_outs, before>>

\* The loop ends, the writer is closed and _save_state runs, line 257.
ApplyFinish ==
    /\ stage = "apply"
    /\ pc = "loop"
    /\ \/ loc.idx >= Len(manifest)
       \/ loc.idx >= loc.start_offset /\ loc.processed >= args.limit
    /\ cursor_file' = SaveState(args.state_file, cursor_file, loc.next_cursor)
    /\ pc' = "idle"
    /\ exit_status' = [exit_status EXCEPT ![invocations] = "ok"]
    /\ UNCHANGED <<inputs, db, pure, fs, loc, invocations, verify_outs, results_out,
                   dedupe_outs, before, history>>

NextApply ==
    \/ ApplyRefuse
    \/ ApplyAbortRunId
    \/ ApplyStart
    \/ ApplySkipRow
    \/ ApplyProcessRow
    \/ ApplyFinish
    \/ Kill

SpecApply == InitApply /\ [][NextApply]_vars

---------------------------------------------------------------------------
(* Dedupe: dedupe_archive_from_verified_manifest.py, the filename score    *)
(* and the choice of the canonical member.                                 *)

HASH_PENALTY_DUP_SUFFIX == 20
HASH_PENALTY_CAMERA == 10
HASH_BONUS_SPACES == 5
HASH_BONUS_LETTERS_CAP == 30
HASH_BONUS_LENGTH_CAP == 30

Min(a, b) == IF a <= b THEN a ELSE b

\* re.search(r"\s\(\d+\)$", name)
_has_duplicate_suffix(name) ==
    /\ Len(name) >= 4
    /\ name[Len(name)] = ")"
    /\ \E i \in 2..(Len(name) - 2) :
           /\ name[i] = "("
           /\ name[i - 1] = " "
           /\ \A j \in (i + 1)..(Len(name) - 1) : IsDigit(name[j])

\* re.fullmatch(prefix + digits, name, re.IGNORECASE); DCIM may stand alone.
CameraPrefixes ==
    {<<"I", "M", "G", "_">>, <<"D", "S", "C", "_">>, <<"P", "X", "L", "_">>,
     <<"V", "I", "D", "_">>, <<"M", "O", "V", "_">>, <<"D", "C", "I", "M">>,
     <<"D", "S", "C", "N">>}

_is_camera_style(name) ==
    \E pre \in CameraPrefixes :
        /\ Len(name) >= Len(pre)
        /\ \A i \in 1..Len(pre) : ToUpper(name[i]) = pre[i]
        /\ \A i \in (Len(pre) + 1)..Len(name) : IsDigit(name[i])
        /\ Len(name) > Len(pre) \/ pre = <<"D", "C", "I", "M">>

_score_destination(path) ==
    LET base == path.stem
        letters == Cardinality({i \in 1..Len(base) : IsAlpha(base[i])})
    IN  (IF _has_duplicate_suffix(base) THEN 0 - HASH_PENALTY_DUP_SUFFIX ELSE 0)
        + (IF _is_camera_style(base) THEN 0 - HASH_PENALTY_CAMERA ELSE 0)
        + Min(letters, HASH_BONUS_LETTERS_CAP)
        + (IF \E i \in 1..Len(base) : base[i] = " "
           THEN HASH_BONUS_SPACES ELSE 0)
        + Min(Len(base), HASH_BONUS_LENGTH_CAP)

\* The loop without the tie-break: the first entry of the highest score.
RECURSIVE ChooseFrom_first_wins(_, _, _, _)
ChooseFrom_first_wins(entries, i, best, best_score) ==
    IF i > Len(entries) THEN <<best, best_score>>
    ELSE IF _score_destination(entries[i].dest_path) > best_score
    THEN ChooseFrom_first_wins(entries, i + 1, entries[i],
                               _score_destination(entries[i].dest_path))
    ELSE ChooseFrom_first_wins(entries, i + 1, best, best_score)

\* The loop of _choose_canonical from entry i on, with the best entry so
\* far and its score.
RECURSIVE ChooseFrom(_, _, _, _)
ChooseFrom(entries, i, best, best_score) ==
    IF i > Len(entries) THEN <<best, best_score>>
    ELSE LET entry == entries[i]
             score == _score_destination(entry.dest_path)
         IN  IF score > best_score
             THEN ChooseFrom(entries, i + 1, entry, score)
             ELSE IF /\ score = best_score
                     /\ StrLess(PathStr(entry.dest_path), PathStr(best.dest_path))
             THEN ChooseFrom(entries, i + 1, entry, score)
             ELSE ChooseFrom(entries, i + 1, best, best_score)

\* _choose_canonical(entries): <<best, keep_reason>>; entries is not empty.
_choose_canonical(entries) ==
    LET found == ChooseFrom(entries, 2, entries[1],
                            _score_destination(entries[1].dest_path))
        best == found[1]
    IN  <<best,
          [score |-> found[2],
           no_dup_suffix_preferred |-> _has_duplicate_suffix(best.dest_path.stem),
           camera_style_penalty |-> _is_camera_style(best.dest_path.stem)]>>

---------------------------------------------------------------------------
(* Dedupe: grouping, the list of duplicate actions and main().             *)

MaxDedupeRows == 3    \* longest verified manifest given to Dedupe

ArchiveRoot == WinPath(<<"D", ":">>, <<<<"L", "i", "b">>>>, <<>>, <<>>)

Global == <<"g", "l", "o", "b", "a", "l">>
Unknown == <<"u", "n", "k", "n", "o", "w", "n">>
H1 == <<"h", "1">>
H2 == <<"h", "2">>

InLib(dir, stem) == WinPath(<<"D", ":">>, <<<<"L", "i", "b">>, dir>>, stem, ExtJpg)

DupImg == InLib(Dir2020, <<"I", "M", "G", "_", "0", "0", "1", " ", "(", "2", ")">>)
TripA == InLib(Dir2020, <<"T", "r", "i", "p", " ", "a">>)
Vid12 == InLib(Dir2021, <<"V", "I", "D", "_", "1", "2">>)
MiscTrip == InLib(<<"m", "i", "s", "c">>, <<"T", "r", "i", "p", " ", "a">>)

DedupeDisk ==
    [p \in {DupImg, TripA, MiscTrip} |->
        IF p = MiscTrip THEN File(1, "h2", TRUE) ELSE File(1, "h1", TRUE)]

DedupeRow(run_id, status, hash, path) ==
    [run_id |-> run_id, verification_status |-> status,
     destination_hash |-> hash, source_hash |-> hash,
     destination_path |-> path, file_size_bytes |-> 1]

DedupeRows ==
    <<DedupeRow("r2", "verified", H1, TripA),
      DedupeRow("r1", "verified", H1, Vid12),
      DedupeRow("r1", "verified", H1, DupImg),
      DedupeRow("r1", "verified", H1, TripA),
      DedupeRow("r1", "verified", H2, MiscTrip),
      DedupeRow("r1", "unverified", H1, TripA),
      DedupeRow("", "verified", H1, DupImg)>>

DedupeArgs ==
    [limit : 1..MaxLimit, state_file : BOOLEAN, dry_run : BOOLEAN,
     scope : {"year", "global"}, expected_run_id : {"auto", "r1"}]

\* _parse_year_from_path: the first component of the destination below the
\* archive root when it is four digits, else None (here <<>>).
_parse_year_from_path(destination_path, archive_root) ==
    LET n == Len(archive_root.dir)
        under == /\ destination_path.drive = archive_root.drive
                 /\ Len(destination_path.dir) >= n
                 /\ SubSeq(destination_path.dir, 1, n) = archive_root.dir
        year_candidate ==
            IF Len(destination_path.dir) > n
            THEN destination_path.dir[n + 1]
            ELSE destination_path.stem \o destination_path.ext
    IN  IF under /\ Len(year_candidate) = 4
              /\ \A i \in 1..4 : IsDigit(year_candidate[i])
        THEN year_candidate
        ELSE <<>>

\* The body of the loop of _build_groups for the rows from i on: the
\* entries of the rows that pass every "continue", in manifest order.
RECURSIVE GroupEntries(_, _, _, _)
GroupEntries(a, rows, expected, i) ==
    IF i > Len(rows) THEN <<>>
    ELSE LET row == rows[i]
             hash_value == IF row.destination_hash # <<>>
                           THEN row.destination_hash ELSE row.source_hash
             year == _parse_year_from_path(row.destination_path, ArchiveRoot)
             kept == /\ row.run_id # ""
                     /\ row.run_id = expected
                     /\ row.verification_status = "verified"
                     /\ hash_value # <<>>
                     /\ a.scope = "year" => year # <<>>
         IN  (IF kept
              THEN <<[row |-> i - 1, run_id |-> row.run_id,
                      dest_path |-> row.destination_path,
                      hash |-> hash_value, year |-> year,
                      size |-> row.file_size_bytes,
                      key |-> <<IF a.scope = "year" THEN year ELSE Global,
                                hash_value>>]>>
              ELSE <<>>)
             \o GroupEntries(a, rows, expected, i + 1)

\* _build_groups: the groups by (scope key, hash) with their entries in
\* manifest order, the run-id mismatches and the inferred run id.
_build_groups(a, rows) ==
    LET all == 1..Len(rows)
        named == {i \in all : rows[i].run_id # ""}
        inferred ==
            IF named = {} THEN ""
            ELSE rows[CHOOSE i \in named : \A j \in named : i <= j].run_id
        expected == IF a.expected_run_id = "auto" THEN inferred
                    ELSE a.expected_run_id
        entries == GroupEntries(a, rows, expected, 1)
    IN  [groups |->
            [k \in {entries[j].key : j \in 1..Len(entries)} |->
                SelectSeq(entries, LAMBDA e : e.key = k)],
         mismatches |->
             {<<i - 1, "missing run_id">> : i \in all \ named}
             \cup {<<i - 1, "expected other">> :
                      i \in {j \in named : rows[j].run_id # expected}},
         inferred |-> expected]

\* sorted(groups.keys()): tuples compare by scope key, then by hash.
KeyLess(k1, k2) ==
    \/ StrLess(k1[1], k2[1])
    \/ k1[1] = k2[1] /\ StrLess(k1[2], k2[2])

RECURSIVE SortedKeys(_)
SortedKeys(keys) ==
    IF keys = {} THEN <<>>
    ELSE LET m == CHOOSE k \in keys : \A other \in keys \ {k} : KeyLess(k, other)
         IN  <<m>> \o SortedKeys(keys \ {m})

\* sorted(entries, key=str(dest_path)): a stable sort, given as the order
\* in which the positions of entries are taken.
RECURSIVE SortedByPath(_, _)
SortedByPath(entries, left) ==
    IF left = {} THEN <<>>
    ELSE LET Before(i, j) ==
                 \/ StrLess(PathStr(entries[i].dest_path),
                            PathStr(entries[j].dest_path))
                 \/ /\ PathStr(entries[i].dest_path) = PathStr(entries[j].dest_path)
                    /\ i < j
             m == CHOOSE i \in left : \A j \in left \ {i} : Before(i, j)
         IN  <<entries[m]>> \o SortedByPath(entries, left \ {m})

\* The duplicate actions of one group ("entry is best" compares identity:
\* two rows with the same path are two entries).
GroupActions(key, entries, scope) ==
    LET chosen == _choose_canonical(entries)
        best == chosen[1]
        ordered == SortedByPath(entries, 1..Len(entries))
        others == SelectSeq(ordered, LAMBDA e : e.row # best.row)
    IN  [j \in 1..Len(others) |->
            [entry |-> others[j], key |-> key, scope |-> scope,
             year |-> others[j].year, hash |-> others[j].hash,
             keep_path |-> best.dest_path, keep_reason |-> chosen[2]]]

RECURSIVE ActionsOf(_, _, _)
ActionsOf(groups, keys, scope) ==
    IF keys = <<>> THEN <<>>
    ELSE (IF Len(groups[keys[1]]) <= 1 THEN <<>>
          ELSE GroupActions(keys[1], groups[keys[1]], scope))
         \o ActionsOf(groups, Tail(keys), scope)

\* keep_records[key] of _compute_actions for the groups of keys, as the
\* sequence of its (key, record) pairs.
RECURSIVE KeepRecordsOf(_, _, _)
KeepRecordsOf(groups, keys, scope) ==
    IF keys = <<>> THEN <<>>
    ELSE (IF Len(groups[keys[1]]) <= 1 THEN <<>>
          ELSE LET chosen == _choose_canonical(groups[keys[1]])
               IN  <<[key |-> keys[1],
                      record |->
                         [run_id |-> chosen[1].run_id, scope |-> scope,
                          year |-> chosen[1].year, hash |-> chosen[1].hash,
                          kept_destination_path |-> chosen[1].dest_path,
                          keep_reason |-> chosen[2]]]>>)
         \o KeepRecordsOf(groups, Tail(keys), scope)

\* keep_records[key]
KeepRecord(keep_records, key) ==
    keep_records[CHOOSE i \in 1..Len(keep_records) :
                    keep_records[i].key = key].record

\* _compute_actions: the actions in processing order and the keep record
\* of every group with more than one entry.
_compute_actions(groups, scope) ==
    LET keys == SortedKeys(DOMAIN groups)
    IN  [actions |-> ActionsOf(groups, keys, scope),
         keep_records |-> KeepRecordsOf(groups, keys, scope)]

\* _quarantine_destination: <quarantine>/<year or "unknown">/<name>, made
\* unique.
_quarantine_destination(quarantine_root, entry, disk) ==
    LET year_folder == IF entry.year # <<>> THEN entry.year ELSE Unknown
    IN  get_unique_destination_path(
            [drive |-> quarantine_root.drive, rooted |-> quarantine_root.rooted,
             dir |-> quarantine_root.dir \o <<year_folder>>,
             stem |-> entry.dest_path.stem, ext |-> entry.dest_path.ext],
            disk)

DedupeGroups == _build_groups(args, manifest)
DedupeComputed == _compute_actions(DedupeGroups.groups, args.scope)

InitDedupe ==
    /\ stage = "dedupe"
    /\ args \in DedupeArgs
    /\ manifest \in Selections(DedupeRows, MaxDedupeRows)
    /\ fs = DedupeDisk
    /\ loc = [idx |-> 0, start_offset |-> 0, processed |-> 0, next_cursor |-> 0,
              actions |-> <<>>, keep_records |-> <<>>,
              keep_written_for_key |-> {}]
    /\ InitCommon

\* main(), lines 297-317: _build_groups reported a mismatch.
DedupeAbortRunId ==
    /\ stage = "dedupe"
    /\ pc = "idle"
    /\ invocations < MaxInvocations
    /\ DedupeGroups.mismatches # {}
    /\ invocations' = invocations + 1
    /\ before' = Durable
    /\ exit_status' = Append(exit_status, "run_id_mismatch")
    /\ UNCHANGED <<inputs, db, pure, fs, cursor_file, pc, loc, verify_outs, results_out,
                   dedupe_outs, history>>

\* A start that forgets which keep rows the earlier invocations wrote.
DedupeStart_unseeded ==
    /\ stage = "dedupe"
    /\ pc = "idle"
    /\ invocations < MaxInvocations
    /\ DedupeGroups.mismatches = {}
    /\ invocations' = invocations + 1
    /\ before' = Durable
    /\ keep_out' = EnsureWriter(keep_out, args.state_file)
    /\ dupes_out' = EnsureWriter(dupes_out, args.state_file)
    /\ LET state_cursor == LoadStateOrZero(args.state_file, cursor_file)
           computed == DedupeComputed
           actions == computed.actions
       IN  loc' = [idx |-> 0, start_offset |-> state_cursor, processed |-> 0,
                   next_cursor |-> state_cursor,
                   actions |-> actions,
                   keep_records |-> computed.keep_records,
                   keep_written_for_key |-> {}]
    /\ pc' = "loop"
    /\ exit_status' = Append(exit_status, "running")
    /\ UNCHANGED <<inputs, db, pure, fs, cursor_file, verify_outs, results_out, history>>

\* main(), lines 297-346: both writers are opened and the keys of the
\* actions before the cursor count as already written.
DedupeStart ==
    /\ stage = "dedupe"
    /\ pc = "idle"
    /\ invocations < MaxInvocations
    /\ DedupeGroups.mismatches = {}
    /\ invocations' = invocations + 1
    /\ before' = Durable
    /\ keep_out' = EnsureWriter(keep_out, args.state_file)
    /\ dupes_out' = EnsureWriter(dupes_out, args.state_file)
    /\ LET state_cursor == LoadStateOrZero(args.state_file, cursor_file)
           computed == DedupeComputed
           actions == computed.actions
       IN  loc' = [idx |-> 0, start_offset |-> state_cursor, processed |-> 0,
                   next_cursor |-> state_cursor,
                   actions |-> actions,
                   keep_records |-> computed.keep_records,
                   keep_written_for_key |->
                       {actions[i].key :
                           i \in 1..Min(state_cursor, Len(actions))}]
    /\ pc' = "loop"
    /\ exit_status' = Append(exit_status, "running")
    /\ UNCHANGED <<inputs, db, pure, fs, cursor_file, verify_outs, results_out, history>>

\* The for loop over the actions, lines 350-409.
DedupeSkipAction ==
    /\ stage = "dedupe"
    /\ pc = "loop"
    /\ loc.idx < Len(loc.actions)
    /\ loc.idx < loc.start_offset
    /\ loc' = [loc EXCEPT !.idx = @ + 1]
    /\ UNCHANGED <<inputs, db, pure, fs, cursor_file, pc, invocations, exit_status,
                   verify_outs, results_out, dedupe_outs, before, history>>

DedupeProcessAction ==
    /\ stage = "dedupe"
    /\ pc = "loop"
    /\ loc.idx < Len(loc.actions)
    /\ loc.idx >= loc.start_offset
    /\ loc.processed < args.limit
    /\ \E io_fails \in BOOLEAN :
         LET action == loc.actions[loc.idx + 1]
             entry == action.entry
             duplicate_path == entry.dest_path
             quarantine_path == _quarantine_destination(QuarantineRoot, entry, fs)
             quarantine_final == get_unique_destination_path(quarantine_path, fs)
             present == Lookup(fs, duplicate_path).exists
             moved == present /\ ~args.dry_run /\ ~io_fails
             action_taken ==
                 IF ~present THEN "missing"
                 ELSE IF args.dry_run THEN "dry-run-quarantine"
                 ELSE IF io_fails THEN "error"
                 ELSE "quarantine"
         IN  /\ keep_out' =
                    IF action.key \in loc.keep_written_for_key THEN keep_out
                    ELSE Append(keep_out, KeepRecord(loc.keep_records, action.key))
             /\ fs' = IF moved THEN MoveFile(fs, duplicate_path, quarantine_final)
                      ELSE fs
             /\ dupes_out' = Append(dupes_out,
                    [run_id |-> entry.run_id, scope |-> action.scope,
                     year |-> action.year, hash |-> action.hash,
                     duplicate_destination_path |-> duplicate_path,
                     quarantine_path |->
                         IF moved THEN quarantine_final ELSE quarantine_path,
                     action_taken |-> action_taken,
                     notes |-> IF ~present THEN <<"duplicate missing on disk">>
                               ELSE IF action_taken = "error"
                               THEN <<"move failed">> ELSE <<>>])
             /\ history' = history \cup
                    {[run |-> invocations, idx |-> loc.idx,
                      outcome |-> action_taken]}
             /\ loc' = [loc EXCEPT !.idx = @ + 1, !.processed = @ + 1,
                                   !.next_cursor = loc.idx + 1,
                                   !.keep_written_for_key = @ \cup {action.key}]
    /\ UNCHANGED <<inputs, db, pure, cursor_file, pc, invocations, exit_status,
                   verify_outs, results_out, before>>

\* The loop ends, the writers are closed and _save_state runs, line 415.
DedupeFinish ==
    /\ stage = "dedupe"
    /\ pc = "loop"
    /\ \/ loc.idx >= Len(loc.actions)
       \/ loc.idx >= loc.start_offset /\ loc.processed >= args.limit
    /\ cursor_file' = SaveState(args.state_file, cursor_file, loc.next_cursor)
    /\ pc' = "idle"
    /\ exit_status' = [exit_status EXCEPT ![invocations] = "ok"]
    /\ UNCHANGED <<inputs, db, pure, fs, loc, invocations, verify_outs, results_out,
                   dedupe_outs, before, history>>

NextDedupe ==
    \/ DedupeAbortRunId
    \/ DedupeStart
    \/ DedupeSkipAction
    \/ DedupeProcessAction
    \/ DedupeFinish
    \/ Kill

SpecDedupe == InitDedupe /\ [][NextDedupe]_vars

---------------------------------------------------------------------------
(* The manifest stages together: one behaviour runs one stage.             *)

InitGated == InitDedupe \/ InitApply

NextGated ==
    \/ DedupeAbortRunId
    \/ DedupeStart
    \/ DedupeSkipAction
    \/ DedupeProcessAction
    \/ DedupeFinish
    \/ ApplyRefuse
    \/ ApplyAbortRunId
    \/ ApplyStart
    \/ ApplySkipRow
    \/ ApplyProcessRow
    \/ ApplyFinish
    \/ Kill

\* Dedupe and Apply-Deletion, the two stages with --expected-run-id.
SpecGated == InitGated /\ [][NextGated]_vars

InitPipeline == InitVerify \/ InitDedupe \/ InitApply

NextPipeline ==
    \/ VerifyStart
    \/ VerifySkipRow
    \/ VerifyProcessRow
    \/ VerifyFinish
    \/ DedupeAbortRunId
    \/ DedupeStart
    \/ DedupeSkipAction
    \/ DedupeProcessAction
    \/ DedupeFinish
    \/ ApplyRefuse
    \/ ApplyAbortRunId
    \/ ApplyStart
    \/ ApplySkipRow
    \/ ApplyProcessRow
    \/ ApplyFinish
    \/ Kill

\* Verify, Dedupe and Apply-Deletion.
SpecPipeline == InitPipeline /\ [][NextPipeline]_vars

---------------------------------------------------------------------------
(* Run-id validation, refusal and the cursor: C1 to C5.                    *)

\* Apply-Deletion got past the refusal of its arguments.
PastRefusal ==
    stage = "apply" => ~(args.delete_permanently /\ ~args.yes_really_delete)

\* The rows (1-based positions) the latest invocation is about to process:
\* Dedupe reads the whole manifest, Verify and Apply-Deletion the rows from
\* the start offset on, at most --limit of them.  The start offset comes
\* from the cursor as it was when the invocation started.
BatchRows ==
    IF stage = "dedupe" THEN 1..Len(manifest)
    ELSE LET saved == IF args.state_file /\ before.cursor_file.exists
                      THEN before.cursor_file.cursor ELSE 0
             start == IF args.offset >= saved THEN args.offset ELSE saved
         IN  {i \in 1..Len(manifest) : i - 1 >= start /\ i - 1 < start + args.limit}

\* The latest invocation ended in the run-id abort and changed nothing.
AbortedUnchanged == LastExit = "run_id_mismatch" /\ Durable = before

\* C1: in Dedupe and Apply-Deletion with an explicit --expected-run-id, a
\* batch with a row whose run_id is empty or differs from the expected
\* value makes the invocation abort with every output manifest, the
\* cursor and the filesystem as they were when it started.
C1_ExplicitRunIdGate ==
    (/\ stage \in {"dedupe", "apply"}
     /\ invocations > 0
     /\ PastRefusal
     /\ args.expected_run_id # "auto"
     /\ \E i \in BatchRows : manifest[i].run_id # args.expected_run_id)
    => AbortedUnchanged

\* A second Apply-Deletion invocation over the next batch aborts and keeps
\* the rows and the moves of the first.
C1_Witness ==
    /\ stage = "apply"
    /\ args.expected_run_id # "auto"
    /\ invocations = 2
    /\ exit_status = <<"ok", "run_id_mismatch">>
    /\ results_out # <<>>
    /\ fs # ApplyDisk
    /\ \E i \in BatchRows : manifest[i].run_id = ""

\* C2: Apply-Deletion with --delete-permanently and without
\* --yes-really-delete ends in the refusal and leaves the filesystem, the
\* results manifest and the cursor file as they were.
C2_RefusalChangesNothing ==
    (/\ stage = "apply"
     /\ invocations > 0
     /\ args.delete_permanently
     /\ ~args.yes_really_delete)
    => (/\ LastExit = "refused"
        /\ fs = ApplyDisk
        /\ results_out = <<>>
        /\ cursor_file = NoCursor
        /\ Durable = before)

\* The refusal of a run that would have deleted an existing file for real.
C2_Witness ==
    /\ stage = "apply"
    /\ LastExit = "refused"
    /\ ~args.dry_run
    /\ manifest # <<>>
    /\ manifest[1].verification_status = "verified"
    /\ manifest[1].source_path \in DOMAIN fs

\* C3 (refuted by the code): after an invocation with a state file was
\* killed between two rows, the saved cursor is the index of the first row
\* whose outcome is not written.
C3_CursorSavedAfterKill ==
    (/\ args.state_file
     /\ LastExit = "killed"
     /\ loc.processed > 0)
    => (cursor_file.exists /\ cursor_file.cursor = loc.next_cursor)

\* C4 (refuted by Apply-Deletion): with --expected-run-id auto, an
\* invocation over a batch whose rows carry two different run ids ends in
\* the run-id abort with nothing changed.
C4_AutoRunIdGate ==
    (/\ stage \in {"dedupe", "apply"}
     /\ invocations > 0
     /\ LastExit \notin {"running", "killed"}
     /\ PastRefusal
     /\ args.expected_run_id = "auto"
     /\ \E i, j \in BatchRows :
            /\ manifest[i].run_id # ""
            /\ manifest[j].run_id # ""
            /\ manifest[i].run_id # manifest[j].run_id)
    => AbortedUnchanged

\* C5 (refuted by the code): a Verify invocation over a batch whose rows
\* carry differing run ids ends in the run-id abort and writes no row to
\* either manifest.
C5_VerifyRunIdGate ==
    (/\ stage = "verify"
     /\ invocations > 0
     /\ LastExit \notin {"running", "killed"}
     /\ \E i, j \in BatchRows : manifest[i].run_id # manifest[j].run_id)
    => (/\ LastExit = "run_id_mismatch"
        /\ verified_out = before.verified_out
        /\ unverified_out = before.unverified_out)

---------------------------------------------------------------------------
(* Verify: C6 and C7.                                                      *)

\* Source and destination exist with the same size and the same content,
\* and both can be read.
FullyMatches(row) ==
    /\ row.source_path \in DOMAIN fs
    /\ row.destination_path \in DOMAIN fs
    /\ fs[row.source_path].size = fs[row.destination_path].size
    /\ fs[row.source_path].readable
    /\ fs[row.destination_path].readable
    /\ fs[row.source_path].digest = fs[row.destination_path].digest

SameSizeOnDisk(row) ==
    /\ row.source_path \in DOMAIN fs
    /\ row.destination_path \in DOMAIN fs
    /\ fs[row.source_path].size = fs[row.destination_path].size

\* The note of the first check that fails for a row that does not match.
FailedCheck(row) ==
    IF row.source_path \notin DOMAIN fs THEN "source missing"
    ELSE IF row.destination_path \notin DOMAIN fs THEN "destination missing"
    ELSE IF ~SameSizeOnDisk(row) THEN "size mismatch"
    ELSE IF ~fs[row.source_path].readable THEN "source hash error"
    ELSE IF ~fs[row.destination_path].readable THEN "destination hash error"
    ELSE "hash mismatch"

\* The output row carries the input row.
Carries(o, row) ==
    /\ o.run_id = row.run_id
    /\ o.source_path = row.source_path
    /\ o.destination_path = row.destination_path
    /\ o.file_size_bytes = row.file_size_bytes

\* The processed rows whose output is still in the manifests: all of them
\* in append mode, else those of the latest invocation.
Retained ==
    {h \in history : args.state_file \/ h.run = invocations}

C7_VerdictPerRow ==
    stage = "verify" =>
    \A h1, h2 \in history :
        manifest[h1.idx + 1] = manifest[h2.idx + 1] => h1.outcome = h2.outcome

\* A row is verified in two invocations, each time after an unverified one.
C7_Witness ==
    /\ stage = "verify"
    /\ \A run \in 1..2 :
           /\ [run |-> run, idx |-> 0, outcome |-> "unverified"] \in history
           /\ [run |-> run, idx |-> 1, outcome |-> "verified"] \in history

---------------------------------------------------------------------------
(* _choose_canonical on its own: one group of entries with the same hash.  *)

MaxGroup == 3    \* most entries in one group

\* Destinations that can share one hash.
GroupPaths ==
    {DupImg, TripA, Vid12, MiscTrip,
     InLib(Dir2020, <<"I", "M", "G", "_", "0", "0", "1">>),
     InLib(Dir2020, <<"T", "r", "i", "p", " ", "a", " ", "(", "2", ")">>)}

InitChoose ==
    /\ stage = "choose"
    /\ \E paths \in SeqsUpTo(GroupPaths, MaxGroup) :
           /\ paths # <<>>
           /\ call = [i \in 1..Len(paths) |->
                         [row |-> i - 1, dest_path |-> paths[i]]]
    /\ returned = NoReturn
    /\ args = <<>>
    /\ manifest = <<>>
    /\ fs = <<>>
    /\ loc = <<>>
    /\ InitCommon_store

\* best, keep_reason = _choose_canonical(entries)
ChooseCanonical ==
    /\ stage = "choose"
    /\ returned = NoReturn
    /\ returned' = _choose_canonical(call)
    /\ UNCHANGED <<inputs, db, call, fs, cursor_file, pc, loc, invocations,
                   exit_status, verify_outs, results_out, dedupe_outs, before,
                   history>>

SpecChoose == InitChoose /\ [][ChooseCanonical]_vars

\* C8 (refuted by the code): in a group of more than one entry that has a
\* suffix-free entry scoring at least as high as every entry with a
\* duplicate suffix, the entry chosen has no duplicate suffix.
C8_NoSuffixedCanonical ==
    (/\ stage = "choose"
     /\ returned # NoReturn
     /\ Len(call) > 1
     /\ \E i \in 1..Len(call) :
            /\ ~_has_duplicate_suffix(call[i].dest_path.stem)
            /\ \A j \in 1..Len(call) :
                   _has_duplicate_suffix(call[j].dest_path.stem)
                   => _score_destination(call[i].dest_path)
                          >= _score_destination(call[j].dest_path))
    => ~_has_duplicate_suffix(returned[1].dest_path.stem)

---------------------------------------------------------------------------
(* The canonical resolver: map_originals.py.  Paths of the content store   *)
(* are strings relative to their root; here sequences of characters.       *)

ToLower(c) ==
    IF c \in {UpperCase[i] : i \in 1..26}
    THEN LowerCase[CHOOSE i \in 1..26 : UpperCase[i] = c]
    ELSE c

RECURSIVE Lower(_)
Lower(str) ==
    IF str = <<>> THEN <<>> ELSE <<ToLower(str[1])>> \o Lower(Tail(str))

\* str.replace("\\", "/")
RECURSIVE ForwardSlashes(_)
ForwardSlashes(str) ==
    IF str = <<>> THEN <<>>
    ELSE <<IF str[1] = "\\" THEN "/" ELSE str[1]>> \o ForwardSlashes(Tail(str))

\* str.strip(chars) and str.lstrip(chars)
RECURSIVE LStrip(_, _)
LStrip(str, chars) ==
    IF str # <<>> /\ str[1] \in chars THEN LStrip(Tail(str), chars) ELSE str

RECURSIVE RStrip(_, _)
RStrip(str, chars) ==
    IF str # <<>> /\ str[Len(str)] \in chars
    THEN RStrip(SubSeq(str, 1, Len(str) - 1), chars)
    ELSE str

Strip(str, chars) == RStrip(LStrip(str, chars), chars)

\* normalize_rel_path: backslashes become slashes, slashes at both ends go.
normalize_rel_path(p) ==
    Strip(ForwardSlashes(p), {"/"})

\* str.split("/") without the empty parts.
RECURSIVE SplitParts(_, _)
SplitParts(str, part) ==
    IF str = <<>> THEN (IF part = <<>> THEN <<>> ELSE <<part>>)
    ELSE IF str[1] = "/"
    THEN (IF part = <<>> THEN <<>> ELSE <<part>>) \o SplitParts(Tail(str), <<>>)
    ELSE SplitParts(Tail(str), Append(part, str[1]))

split_path_parts(p) == SplitParts(normalize_rel_path(p), <<>>)

\* os.path.basename: what follows the last slash.
BaseName(fwd) ==
    IF \E i \in 1..Len(fwd) : fwd[i] = "/"
    THEN SubSeq(fwd,
                (CHOOSE i \in 1..Len(fwd) :
                    /\ fwd[i] = "/"
                    /\ \A j \in (i + 1)..Len(fwd) : fwd[j] # "/") + 1,
                Len(fwd))
    ELSE fwd

\* os.path.splitext: the position of the last dot that has a character
\* other than a dot before it; past the end when there is none.
ExtStart(base) ==
    IF \E i \in 1..Len(base) : base[i] = "." /\ \E j \in 1..(i - 1) : base[j] # "."
    THEN CHOOSE i \in 1..Len(base) :
             /\ base[i] = "."
             /\ \E j \in 1..(i - 1) : base[j] # "."
             /\ \A k \in (i + 1)..Len(base) : base[k] # "."
    ELSE Len(base) + 1

SplitExt(base, cut) ==
    <<Lower(SubSeq(base, 1, cut - 1)),
      LStrip(Lower(SubSeq(base, cut, Len(base))), {"."})>>

StemAndExtOfBase(base) == SplitExt(base, ExtStart(base))

\* stem_and_ext: basename and splitext of the path with forward slashes,
\* both parts in lower case, the extension without its dot.
stem_and_ext(path) == StemAndExtOfBase(BaseName(ForwardSlashes(path)))

\* The code computes the similarities and the weight with Python floats,
\* IEEE 754 doubles: every operation gives the double nearest to the exact
\* result, ties to the even mantissa.  A natural number of any size is a
\* sequence of limbs, the least significant first, without leading zeros.
LimbBase == 2 ^ 14

\* n binary digits are LimbsIn(n) whole limbs and BitsIn(n) digits more.
LimbsIn(n) == n \div 14

BitsIn(n) == n % 14

RECURSIVE BigTrim(_)
BigTrim(a) ==
    IF a = <<>> THEN <<>>
    ELSE IF a[Len(a)] = 0 THEN BigTrim(SubSeq(a, 1, Len(a) - 1))
    ELSE a

RECURSIVE BigOfInt(_)
BigOfInt(n) ==
    IF n = 0 THEN <<>> ELSE <<n % LimbBase>> \o BigOfInt(n \div LimbBase)

Limb(a, i) == IF i <= Len(a) THEN a[i] ELSE 0

RECURSIVE BigAddFrom(_, _, _, _)
BigAddFrom(a, b, i, carry) ==
    IF i > Len(a) /\ i > Len(b)
    THEN IF carry = 0 THEN <<>> ELSE <<carry>>
    ELSE <<(Limb(a, i) + Limb(b, i) + carry) % LimbBase>>
         \o BigAddFrom(a, b, i + 1,
                       (Limb(a, i) + Limb(b, i) + carry) \div LimbBase)

BigAdd(a, b) == BigAddFrom(a, b, 1, 0)

\* a - b for a >= b
RECURSIVE BigSubFrom(_, _, _, _)
BigSubFrom(a, b, i, borrow) ==
    IF i > Len(a) THEN <<>>
    ELSE <<(Limb(a, i) - Limb(b, i) - borrow + LimbBase) % LimbBase>>
         \o BigSubFrom(a, b, i + 1,
                       IF Limb(a, i) - Limb(b, i) - borrow < 0 THEN 1 ELSE 0)

BigSub(a, b) == BigTrim(BigSubFrom(a, b, 1, 0))

\* a * k for 0 <= k < LimbBase
RECURSIVE BigMulSmallFrom(_, _, _, _)
BigMulSmallFrom(a, k, i, carry) ==
    IF i > Len(a)
    THEN IF carry = 0 THEN <<>> ELSE <<carry>>
    ELSE <<(a[i] * k + carry) % LimbBase>>
         \o BigMulSmallFrom(a, k, i + 1, (a[i] * k + carry) \div LimbBase)

BigMulSmall(a, k) == BigTrim(BigMulSmallFrom(a, k, 1, 0))

RECURSIVE ZeroLimbs(_)
ZeroLimbs(n) == IF n = 0 THEN <<>> ELSE <<0>> \o ZeroLimbs(n - 1)

BigShiftLimbs(a, n) == IF a = <<>> THEN <<>> ELSE ZeroLimbs(n) \o a

RECURSIVE BigMulFrom(_, _, _)
BigMulFrom(a, b, j) ==
    IF j > Len(b) THEN <<>>
    ELSE BigAdd(BigShiftLimbs(BigMulSmall(a, b[j]), j - 1),
                BigMulFrom(a, b, j + 1))

BigMul(a, b) == BigMulFrom(a, b, 1)

\* Long division of the limbs i..1 of a by d < 2^17, rem carried in from
\* the limbs above: the limbs 1..i of the quotient.
RECURSIVE BigQuotSmallFrom(_, _, _, _)
BigQuotSmallFrom(a, d, i, rem) ==
    IF i = 0 THEN <<>>
    ELSE Append(BigQuotSmallFrom(a, d, i - 1, (rem * LimbBase + a[i]) % d),
                (rem * LimbBase + a[i]) \div d)

\* The quotient of a by d
BigQuotSmall(a, d) == BigTrim(BigQuotSmallFrom(a, d, Len(a), 0))

\* The remainder of a by d
RECURSIVE BigRemSmallFrom(_, _, _, _)
BigRemSmallFrom(a, d, i, rem) ==
    IF i = 0 THEN rem
    ELSE BigRemSmallFrom(a, d, i - 1, (rem * LimbBase + a[i]) % d)

BigRemSmall(a, d) == BigRemSmallFrom(a, d, Len(a), 0)

\* a * 2^n and the integer part of a / 2^n
BigShl(a, n) ==
    BigShiftLimbs(BigMulSmall(a, 2 ^ BitsIn(n)), LimbsIn(n))

BigShr(a, n) ==
    BigQuotSmall(SubSeq(a, LimbsIn(n) + 1, Len(a)), 2 ^ BitsIn(n))

RECURSIVE BitsOf(_)
BitsOf(x) == IF x = 0 THEN 0 ELSE 1 + BitsOf(x \div 2)

\* The number of binary digits of a > 0
BigBits(a) == 14 * (Len(a) - 1) + BitsOf(a[Len(a)])

RECURSIVE BigLessFrom(_, _, _)
BigLessFrom(a, b, i) ==
    IF i = 0 THEN FALSE
    ELSE IF a[i] # b[i] THEN a[i] < b[i]
    ELSE BigLessFrom(a, b, i - 1)

BigLess(a, b) ==
    \/ Len(a) < Len(b)
    \/ Len(a) = Len(b) /\ BigLessFrom(a, b, Len(a))

\* A double that is not negative: the value m * 2^e with a mantissa m of
\* exactly 53 binary digits, or zero.
DoubleZero == [m |-> <<>>, e |-> 0]

\* The rounded quotient q is 2^53 after a carry out of the mantissa.
RoundCarry(q, e) ==
    IF BigBits(q) > 53 THEN [m |-> BigShr(q, 1), e |-> e + 1]
    ELSE [m |-> q, e |-> e]

\* Round to nearest, ties to even: q the bits kept, rem the bits dropped,
\* half the weight of the first dropped bit.
RoundNearestEven(q, rem, half, e) ==
    RoundCarry(IF BigLess(half, rem) \/ (rem = half /\ q[1] % 2 = 1)
               THEN BigAdd(q, <<1>>) ELSE q, e)

RoundDropping(m, e, s, q) ==
    RoundNearestEven(q, BigSub(m, BigShl(q, s)), BigShl(<<1>>, s - 1), e + s)

RoundBits(m, e, bits) ==
    IF bits <= 53
    THEN [m |-> BigShl(m, 53 - bits), e |-> e - (53 - bits)]
    ELSE RoundDropping(m, e, bits - 53, BigShr(m, bits - 53))

\* The double nearest to m * 2^e
DoubleRound(m, e) ==
    IF m = <<>> THEN DoubleZero ELSE RoundBits(m, e, BigBits(m))

\* The exact quotient scaled by 2^71, its last bit set when the division
\* left a remainder.
ScaledQuotient(n, den) ==
    BigAdd(BigMulSmall(BigQuotSmall(n, den), 2),
           IF BigRemSmall(n, den) = 0 THEN <<>> ELSE <<1>>)

\* The double num / den of two integers 0 <= num, 0 < den: a float literal
\* such as 0.60 is Double(6, 10).
Double(num, den) ==
    DoubleRound(ScaledQuotient(BigShl(BigOfInt(num), 70), den), 0 - 71)

DoubleMul(x, y) ==
    IF x.m = <<>> \/ y.m = <<>> THEN DoubleZero
    ELSE DoubleRound(BigMul(x.m, y.m), x.e + y.e)

AddAligned(x, y, e) ==
    DoubleRound(BigAdd(BigShl(x.m, x.e - e), BigShl(y.m, y.e - e)), e)

DoubleAdd(x, y) ==
    IF x.m = <<>> THEN y
    ELSE IF y.m = <<>> THEN x
    ELSE AddAligned(x, y, IF x.e < y.e THEN x.e ELSE y.e)

DoubleLess(x, y) ==
    IF y.m = <<>> THEN FALSE
    ELSE IF x.m = <<>> THEN TRUE
    ELSE x.e < y.e \/ (x.e = y.e /\ BigLess(x.m, y.m))

\* The common blocks of a and b as (start in a, start in b, size).
Blocks(a, b) ==
    {m \in (1..Len(a)) \X (1..Len(b)) \X (1..Len(a)) :
        /\ m[1] + m[3] - 1 <= Len(a)
        /\ m[2] + m[3] - 1 <= Len(b)
        /\ SubSeq(a, m[1], m[1] + m[3] - 1) = SubSeq(b, m[2], m[2] + m[3] - 1)}

\* find_longest_match: the longest block, the earliest in a and then in b
\* among the longest; size 0 when nothing matches.
LongestOf(blocks) ==
    IF blocks = {} THEN <<0, 0, 0>>
    ELSE CHOOSE m \in blocks : \A o \in blocks :
             \/ m[3] > o[3]
             \/ m[3] = o[3] /\ m[1] < o[1]
             \/ m[3] = o[3] /\ m[1] = o[1] /\ m[2] <= o[2]

\* The sum of the sizes of difflib's matching blocks: the longest block
\* and the same to its left and to its right.
RECURSIVE MatchedChars(_, _)
MatchedAround(a, b, best) ==
    IF best[3] = 0 THEN 0
    ELSE best[3]
         + MatchedChars(SubSeq(a, 1, best[1] - 1), SubSeq(b, 1, best[2] - 1))
         + MatchedChars(SubSeq(a, best[1] + best[3], Len(a)),
                        SubSeq(b, best[2] + best[3], Len(b)))

MatchedChars(a, b) ==
    IF a = <<>> \/ b = <<>> THEN 0
    ELSE MatchedAround(a, b, LongestOf(Blocks(a, b)))

\* seq_similarity: difflib.SequenceMatcher(a, b).ratio() = 2M / (|a| + |b|)
seq_similarity(a, b) ==
    IF a = <<>> /\ b = <<>> THEN Double(1, 1)
    ELSE IF a = <<>> \/ b = <<>> THEN Double(0, 1)
    ELSE Double(2 * MatchedChars(a, b), Len(a) + Len(b))

JaccardOfSets(sa, sb) ==
    IF sa = {} /\ sb = {} THEN Double(1, 1)
    ELSE IF sa = {} \/ sb = {} THEN Double(0, 1)
    ELSE Double(Cardinality(sa \cap sb), Cardinality(sa \cup sb))

\* jaccard of two lists of path parts
jaccard(a, b) ==
    JaccardOfSets({a[i] : i \in 1..Len(a)}, {b[i] : i \in 1..Len(b)})

\* NoExt stands for a NULL ext column.
NoExt == <<"NULL">>

\* (ext column or the path's extension or "").lower().lstrip(".")
ExtOf(ext_column, path_ext) ==
    LStrip(Lower(IF ext_column # NoExt /\ ext_column # <<>>
                 THEN ext_column ELSE path_ext), {"."})

ExtMatch(ox, cx) ==
    IF ox # <<>> /\ cx # <<>> /\ ox = cx THEN Double(1, 1) ELSE Double(0, 1)

\* max(0.0, min(1.0, weight))
Clamp(weight) ==
    IF DoubleLess(Double(1, 1), weight) THEN Double(1, 1)
    ELSE IF DoubleLess(weight, Double(0, 1)) THEN Double(0, 1)
    ELSE weight

\* 0.60 * stem_sim + 0.30 * dir_sim + 0.10 * ext_match, summed from the
\* left, and the note.
Weighted(stem_sim, dir_sim, ext_match) ==
    <<Clamp(DoubleAdd(DoubleAdd(DoubleMul(Double(6, 10), stem_sim),
                                DoubleMul(Double(3, 10), dir_sim)),
                      DoubleMul(Double(1, 10), ext_match))),
      [stem_sim |-> stem_sim, dir_sim |-> dir_sim, ext_match |-> ext_match]>>

WeightOfParts(o_parts, c_parts, o_se, c_se, original_ext, canonical_ext) ==
    Weighted(seq_similarity(o_se[1], c_se[1]),
             jaccard(SubSeq(o_parts, 1, Len(o_parts) - 1),
                     SubSeq(c_parts, 1, Len(c_parts) - 1)),
             ExtMatch(ExtOf(original_ext, o_se[2]),
                      ExtOf(canonical_ext, c_se[2])))

WeightOfNormalized(op, cp, original_ext, canonical_ext) ==
    WeightOfParts(split_path_parts(op), split_path_parts(cp),
                  stem_and_ext(op), stem_and_ext(cp),
                  original_ext, canonical_ext)

\* compute_provenance_weight: <<weight, note>>
compute_provenance_weight(original_path, canonical_path, original_ext, canonical_ext) ==
    WeightOfNormalized(normalize_rel_path(original_path),
                       normalize_rel_path(canonical_path),
                       original_ext, canonical_ext)

\* A NULL canonical_library_file_id, and the file_id of "no candidate".
NoFile == 0

Active == <<"a", "c", "t", "i", "v", "e">>
Missing == <<"m", "i", "s", "s", "i", "n", "g">>

\* status_is_good: NULL and "" (both <<>> here) are good.
status_is_good(status) ==
    \/ status = <<>>
    \/ Lower(Strip(status, {" "})) \in
           {<<"o", "k">>, <<"g", "o", "o", "d">>, Active,
            <<"p", "r", "e", "s", "e", "n", "t">>,
            <<"v", "e", "r", "i", "f", "i", "e", "d">>,
            <<"r", "e", "a", "d", "y">>}

FileRow(file_id, path, ext, status, role) ==
    [file_id |-> file_id, path |-> path, ext |-> ext, status |-> status,
     role |-> role]

\* None, as a row with no file.
NoCandidate == FileRow(NoFile, <<>>, NoExt, <<>>, "none")

\* A resolver that takes the member with a good status and the shortest
\* path, whatever its role.
choose_canonical_candidate_any_role(members, allow_original_fallback) ==
    IF members = <<>> THEN NoCandidate
    ELSE LET Key(m) == <<IF status_is_good(m.status) THEN 0 ELSE 1,
                         Len(normalize_rel_path(m.path)), m.file_id>>
         IN  members[CHOOSE i \in 1..Len(members) :
                        \A j \in 1..Len(members) :
                            LET a == Key(members[i])
                                b == Key(members[j])
                            IN  \/ a[1] < b[1]
                                \/ a[1] = b[1] /\ a[2] < b[2]
                                \/ a[1] = b[1] /\ a[2] = b[2] /\ a[3] <= b[3]]

\* A resolver for which the original fallback is always allowed.
choose_canonical_candidate_fallback(members, allow_original_fallback) ==
    LET pick == choose_canonical_candidate_any_role(
                    SelectSeq(members, LAMBDA m : m.role = "library"), TRUE)
        next == choose_canonical_candidate_any_role(
                    SelectSeq(members, LAMBDA m : m.role = "staging"), TRUE)
        last == choose_canonical_candidate_any_role(
                    SelectSeq(members, LAMBDA m : m.role = "original"), TRUE)
    IN  IF pick # NoCandidate THEN pick
        ELSE IF next # NoCandidate THEN next
        ELSE last

\* choose_canonical_candidate: the first role of the order with a member,
\* and in it the smallest (-good, path_len, file_id).  The roles a scan
\* records are lower case already.
choose_canonical_candidate(members, allow_original_fallback) ==
    LET role_order == <<"library", "staging">>
                      \o (IF allow_original_fallback THEN <<"original">>
                          ELSE <<>>)
        Bucket(role) == SelectSeq(members, LAMBDA m : m.role = role)
        filled == {r \in 1..Len(role_order) : Bucket(role_order[r]) # <<>>}
        Key(m) == <<IF status_is_good(m.status) THEN 0 - 1 ELSE 0,
                    Len(normalize_rel_path(m.path)), m.file_id>>
        KeyLeq(a, b) ==
            \/ a[1] < b[1]
            \/ a[1] = b[1] /\ a[2] < b[2]
            \/ a[1] = b[1] /\ a[2] = b[2] /\ a[3] <= b[3]
    IN  IF members = <<>> \/ filled = {} THEN NoCandidate
        ELSE LET bucket ==
                     Bucket(role_order[CHOOSE r \in filled :
                                          \A q \in filled : r <= q])
             IN  bucket[CHOOSE i \in 1..Len(bucket) :
                           \A j \in 1..Len(bucket) :
                               KeyLeq(Key(bucket[i]), Key(bucket[j]))]

\* Member rows a group can have.
Jpg == <<".", "j", "p", "g">>

CandidatePool ==
    <<FileRow(1, <<"l", "i", "b", "/", "2", "0", "2", "0", "/", "a", ".", "j", "p", "g">>,
              Jpg, Missing, "library"),
      FileRow(2, <<"s", "t", "/", "a", ".", "j", "p", "g">>, Jpg, Active, "staging"),
      FileRow(3, <<"o", "r", "i", "g", "/", "2", "0", "2", "0", "/", "a", ".", "j", "p", "g">>,
              Jpg, Active, "original"),
      FileRow(4, <<"o", "r", "i", "g", "/", "b", ".", "p", "n", "g">>,
              NoExt, <<>>, "original"),
      FileRow(5, <<"l", "i", "b", "/", "a", ".", "j", "p", "g">>,
              Jpg, <<" ", "O", "K">>, "library"),
      FileRow(6, <<"\\", "l", "i", "b", "\\", "b", ".", "j", "p", "g">>,
              Jpg, Active, "library")>>

InitCandidate ==
    /\ stage = "candidate"
    /\ \E picked \in SUBSET (1..Len(CandidatePool)),
          allow_original_fallback \in BOOLEAN :
           call = [members |->
                       [i \in 1..Cardinality(picked) |->
                           CandidatePool[Ascending(picked)[i]]],
                   allow_original_fallback |-> allow_original_fallback]
    /\ returned = NoReturn
    /\ args = <<>>
    /\ manifest = <<>>
    /\ fs = <<>>
    /\ loc = <<>>
    /\ InitCommon_store

\* candidate = choose_canonical_candidate(members, allow_original_fallback)
ChooseCandidate ==
    /\ stage = "candidate"
    /\ returned = NoReturn
    /\ returned' = <<choose_canonical_candidate(call.members,
                                                call.allow_original_fallback)>>
    /\ UNCHANGED <<inputs, db, call, fs, cursor_file, pc, loc, invocations,
                   exit_status, verify_outs, results_out, dedupe_outs, before,
                   history>>

SpecCandidate == InitCandidate /\ [][ChooseCandidate]_vars

HasRole(members, role) == \E i \in 1..Len(members) : members[i].role = role

\* C9: for a group of two or more members with a library member, the
\* candidate is one of the group's library members, whatever the statuses
\* and the fallback flag.
C9_LibraryFirst ==
    (/\ stage = "candidate"
     /\ returned # NoReturn
     /\ Len(call.members) >= 2
     /\ HasRole(call.members, "library"))
    => (/\ returned[1].role = "library"
        /\ Contains(call.members, returned[1]))

\* The only library member is missing and its path is the longest, the
\* staging and original members are good, the fallback is allowed.
C9_Witness ==
    /\ stage = "candidate"
    /\ returned # NoReturn
    /\ call.allow_original_fallback
    /\ Len(call.members) = 3
    /\ returned[1].file_id = 1
    /\ HasRole(call.members, "staging")
    /\ HasRole(call.members, "original")

---------------------------------------------------------------------------
(* The resolver's main() over the content store.                           *)

S1 == "s1"
S2 == "s2"

\* files.id -> the row of the file; the role is that of the file's root.
ResolverFiles ==
    <<FileRow(1, <<"l", "i", "b", "/", "2", "0", "2", "0", "/", "a", ".", "j", "p", "g">>,
              Jpg, Missing, "library"),
      FileRow(2, <<"s", "t", "/", "a", ".", "j", "p", "g">>, Jpg, Active, "staging"),
      FileRow(3, <<"o", "r", "i", "g", "/", "2", "0", "2", "0", "/", "a", ".", "j", "p", "g">>,
              Jpg, Active, "original"),
      FileRow(4, <<"o", "r", "i", "g", "/", "b", ".", "p", "n", "g">>,
              NoExt, Active, "original"),
      FileRow(5, <<"x", "/", "c", ".", "j", "p", "e", "g">>,
              <<".", "j", "p", "e", "g">>, Active, "original"),
      FileRow(6, <<"x", "/", "c", ".", "j", "p", "g">>, Jpg, Active, "library")>>

ResolverArgs ==
    [only_missing_canonical : BOOLEAN, force_canonical : BOOLEAN,
     allow_original_fallback : BOOLEAN, append_provenance : BOOLEAN,
     min_weight : {Double(0, 1), Double(3, 4)}, limit : {0, 1}]

\* The rows of the files with the ids of order, with their roles.
RECURSIVE MemberRows(_, _, _)
MemberRows(store, sha256, order) ==
    IF order = <<>> THEN <<>>
    ELSE LET f == store.files[order[1]]
             m == CHOOSE x \in store.members :
                      x.sha256 = sha256 /\ x.file_id = order[1]
         IN  <<FileRow(order[1], f.path, f.ext, f.status, m.role)>>
             \o MemberRows(store, sha256, Tail(order))

\* fetch_group_members: the rows of the group's files with their roles, in
\* the order of the file ids.
fetch_group_members(store, sha256) ==
    MemberRows(store, sha256,
               Ascending({m.file_id :
                             m \in {x \in store.members : x.sha256 = sha256}}))

\* iter_hash_groups: (sha256, canonical_library_file_id) of every group,
\* or of the groups without a canonical.
iter_hash_groups(store, only_missing_canonical) ==
    IF only_missing_canonical
    THEN SelectSeq(store.hash_groups,
                   LAMBDA g : g.canonical_library_file_id = NoFile)
    ELSE store.hash_groups

\* The UPDATE of upsert_canonical over the rows of hash_groups.
RECURSIVE UpdateCanonical(_, _, _, _)
UpdateCanonical(rows, sha256, canonical_file_id, force) ==
    IF rows = <<>> THEN <<>>
    ELSE <<IF /\ rows[1].sha256 = sha256
              /\ force \/ rows[1].canonical_library_file_id = NoFile
           THEN [rows[1] EXCEPT !.canonical_library_file_id = canonical_file_id]
           ELSE rows[1]>>
         \o UpdateCanonical(Tail(rows), sha256, canonical_file_id, force)

\* An upsert whose UPDATE has lost its IS NULL condition.
upsert_canonical_forced(store, sha256, canonical_file_id, force) ==
    [store EXCEPT !.hash_groups =
        UpdateCanonical(@, sha256, canonical_file_id, TRUE)]

\* upsert_canonical: the UPDATE, on the group's row when forced and else
\* only when its canonical is NULL.
upsert_canonical(store, sha256, canonical_file_id, force) ==
    [store EXCEPT !.hash_groups =
        UpdateCanonical(@, sha256, canonical_file_id, force)]

delete_provenance_for_sha(store, sha256) ==
    [store EXCEPT !.provenance = SelectSeq(@, LAMBDA r : r.sha256 # sha256)]

insert_provenance(store, sha256, original_file_id, weight, note) ==
    [store EXCEPT !.provenance =
        Append(@, [sha256 |-> sha256, original_file_id |-> original_file_id,
                   weight |-> weight, note |-> note])]

\* insert_provenance unless the weight is below --min-weight.
InsertWeighted(store, sha256, o, w, min_weight) ==
    IF DoubleLess(w[1], min_weight) THEN store
    ELSE insert_provenance(store, sha256, o.file_id, w[1], w[2])

\* compute_provenance_weight of the file o against the files c, c + 1, ...
RECURSIVE WeightsAgainst(_, _)
WeightsAgainst(o, c) ==
    IF c > Len(ResolverFiles) THEN <<>>
    ELSE <<compute_provenance_weight(ResolverFiles[o].path,
                                     ResolverFiles[c].path,
                                     ResolverFiles[o].ext,
                                     ResolverFiles[c].ext)>>
         \o WeightsAgainst(o, c + 1)

RECURSIVE WeightsFrom(_)
WeightsFrom(o) ==
    IF o > Len(ResolverFiles) THEN <<>>
    ELSE <<WeightsAgainst(o, 1)>> \o WeightsFrom(o + 1)

\* What compute_provenance_weight returns for each original and each
\* canonical of the store, computed once: a file's path and ext do not
\* change.
ProvenanceWeights == WeightsFrom(1)

\* The loop over the originals, lines 532-543.
RECURSIVE InsertOriginals(_, _, _, _, _)
InsertOriginals(store, sha256, originals, canonical, min_weight) ==
    IF originals = <<>> THEN store
    ELSE InsertOriginals(
             InsertWeighted(store, sha256, originals[1],
                            ProvenanceWeights[originals[1].file_id]
                                             [canonical.file_id],
                            min_weight),
             sha256, Tail(originals), canonical, min_weight)

\* Lines 514-543 for a candidate: the canonical is set, and when the group
\* has originals its provenance is deleted (unless appended to) and
\* written again.
WriteGroup(store, updated, a, sha256, canonical_id, originals) ==
    IF originals = <<>> THEN updated
    ELSE InsertOriginals(
             IF a.append_provenance THEN updated
             ELSE delete_provenance_for_sha(updated, sha256),
             sha256, originals, store.files[canonical_id], a.min_weight)

ResolveWith(store, a, sha256, existing_canonical_id, members, candidate) ==
    [candidate |-> candidate,
     store |->
        IF candidate = NoCandidate THEN store
        ELSE WriteGroup(
                 store,
                 upsert_canonical(store, sha256, candidate.file_id,
                                  a.force_canonical),
                 a, sha256,
                 IF a.force_canonical \/ existing_canonical_id = NoFile
                 THEN candidate.file_id ELSE existing_canonical_id,
                 SelectSeq(members, LAMBDA m : m.role = "original"))]

ResolveMembers(store, a, sha256, existing_canonical_id, members) ==
    ResolveWith(store, a, sha256, existing_canonical_id, members,
                choose_canonical_candidate(members, a.allow_original_fallback))

\* The body of the loop over the groups, lines 467-546: the store it
\* leaves and the candidate it chose.
ResolveOne(store, a, sha256, existing_canonical_id) ==
    ResolveMembers(store, a, sha256, existing_canonical_id,
                   fetch_group_members(store, sha256))

InitResolveStore ==
    /\ \E in_s1 \in SUBSET {1, 2, 3, 4}, in_s2 \in SUBSET {5, 6} :
           db = [files |-> ResolverFiles,
                 hash_groups |->
                     <<[sha256 |-> S1, canonical_library_file_id |-> NoFile],
                       [sha256 |-> S2, canonical_library_file_id |-> NoFile]>>,
                 members |->
                     {[sha256 |-> S1, file_id |-> f,
                       role |-> ResolverFiles[f].role] : f \in in_s1}
                     \cup
                     {[sha256 |-> S2, file_id |-> f,
                       role |-> ResolverFiles[f].role] : f \in in_s2},
                 provenance |-> <<>>]
    /\ args = <<>>
    /\ manifest = <<>>
    /\ fs = <<>>
    /\ loc = <<>>
    /\ cursor_file = NoCursor
    /\ pc = "idle"
    /\ invocations = 0
    /\ exit_status = <<>>
    /\ verified_out = <<>>
    /\ unverified_out = <<>>
    /\ results_out = <<>>
    /\ keep_out = <<>>
    /\ dupes_out = <<>>
    /\ before = db
    /\ history = {}
    /\ call = NoCall
    /\ returned = NoReturn

InitResolve ==
    /\ stage = "resolve"
    /\ InitResolveStore

\* The arguments of an invocation.  Where scans add members between the
\* runs (stage "rescan") the runs keep the default --min-weight and
\* replace the provenance.
ArgsOf(program) ==
    IF program = "rescan"
    THEN {a \in ResolverArgs :
             ~a.append_provenance /\ a.min_weight = Double(0, 1)}
    ELSE ResolverArgs

\* main(), lines 390-465: the arguments, the connection and the list of
\* groups, cut to --limit when that is positive.
ResolveStart ==
    /\ stage \in {"resolve", "rescan"}
    /\ pc = "idle"
    /\ invocations < MaxInvocations
    /\ \E a \in ArgsOf(stage) :
           /\ args' = a
           /\ LET groups_iter == iter_hash_groups(db, a.only_missing_canonical)
              IN  loc' = [i |-> 0,
                          groups |-> IF a.limit > 0
                                     THEN SubSeq(groups_iter, 1,
                                                 Min(a.limit, Len(groups_iter)))
                                     ELSE groups_iter,
                          committed |-> db]
    /\ invocations' = invocations + 1
    /\ before' = db
    /\ pc' = "loop"
    /\ exit_status' = Append(exit_status, "running")
    /\ UNCHANGED <<stage, manifest, db, pure, fs, cursor_file, verify_outs,
                   results_out, dedupe_outs, history>>

\* One group, lines 467-549.  --commit-every is above the number of groups.
ResolveGroup ==
    /\ stage \in {"resolve", "rescan"}
    /\ pc = "loop"
    /\ loc.i < Len(loc.groups)
    /\ LET group == loc.groups[loc.i + 1]
           r == ResolveOne(db, args, group.sha256,
                           group.canonical_library_file_id)
       IN  db' = r.store
    /\ loc' = [loc EXCEPT !.i = @ + 1]
    /\ UNCHANGED <<inputs, pure, fs, cursor_file, pc, invocations, exit_status,
                   verify_outs, results_out, dedupe_outs, before, history>>

\* conn.commit() and the end of the process, lines 551-552.  Between two
\* invocations "before" is the store itself.
ResolveFinish ==
    /\ stage \in {"resolve", "rescan"}
    /\ pc = "loop"
    /\ loc.i >= Len(loc.groups)
    /\ pc' = "idle"
    /\ exit_status' = [exit_status EXCEPT ![invocations] = "ok"]
    /\ args' = <<>>
    /\ loc' = <<>>
    /\ before' = db
    /\ UNCHANGED <<stage, manifest, db, pure, fs, cursor_file, invocations,
                   verify_outs, results_out, dedupe_outs, history>>

\* The process dies in the loop: the transaction is rolled back.
ResolveKill ==
    /\ stage \in {"resolve", "rescan"}
    /\ pc = "loop"
    /\ db' = loc.committed
    /\ pc' = "idle"
    /\ exit_status' = [exit_status EXCEPT ![invocations] = "killed"]
    /\ args' = <<>>
    /\ loc' = <<>>
    /\ before' = loc.committed
    /\ UNCHANGED <<stage, manifest, pure, fs, cursor_file, invocations,
                   verify_outs, results_out, dedupe_outs, history>>

NextResolve ==
    \/ ResolveStart
    \/ ResolveGroup
    \/ ResolveFinish
    \/ ResolveKill

SpecResolve == InitResolve /\ [][NextResolve]_vars

\* The canonical reference of a group in a store.
CanonicalOf(store, sha256) ==
    LET i == CHOOSE k \in 1..Len(store.hash_groups) :
                 store.hash_groups[k].sha256 = sha256
    IN  store.hash_groups[i].canonical_library_file_id

\* The provenance rows of a group in a store.
ProvenanceOf(store, sha256) ==
    SelectSeq(store.provenance, LAMBDA p : p.sha256 = sha256)

\* A group with members of which none is library or staging.
OriginalsOnly(store, sha256) ==
    /\ \E m \in store.members : m.sha256 = sha256
    /\ \A m \in store.members :
           m.sha256 = sha256 => m.role \notin {"library", "staging"}

\* C10: in a resolver run without --allow-original-fallback, a group that
\* has no library and no staging member keeps a null canonical reference
\* null, and the run writes no provenance row for the group.
C10_NoCandidateLeavesNull ==
    (/\ stage = "resolve"
     /\ pc = "loop"
     /\ ~args.allow_original_fallback)
    => \A sha256 \in {S1, S2} :
           OriginalsOnly(db, sha256)
           => /\ CanonicalOf(before, sha256) = NoFile
                  => CanonicalOf(db, sha256) = NoFile
              /\ ProvenanceOf(db, sha256) = ProvenanceOf(before, sha256)

\* A run without the fallback has gone through both groups: the first has
\* originals only and its canonical is still null, the second was given
\* its library member and a provenance row.
C10_Witness ==
    /\ stage = "resolve"
    /\ pc = "loop"
    /\ ~args.allow_original_fallback
    /\ loc.i = 2
    /\ loc.groups[1].sha256 = S1
    /\ OriginalsOnly(db, S1)
    /\ Cardinality({m \in db.members : m.sha256 = S1}) = 2
    /\ CanonicalOf(db, S1) = NoFile
    /\ ProvenanceOf(db, S1) = <<>>
    /\ CanonicalOf(db, S2) = 6
    /\ ProvenanceOf(db, S2) # <<>>

---------------------------------------------------------------------------
(* The resolver between scans: a later scan adds a file to a group         *)
(* (scan.py ensure_membership), then the resolver runs again.              *)

\* ensure_membership, as seen by the resolver: between two resolver runs a
\* file joins the group of its hash with the role of its root.
AddMember ==
    /\ stage = "rescan"
    /\ pc = "idle"
    /\ \E f \in 1..Len(ResolverFiles) :
           /\ \A m \in db.members : m.file_id # f
           /\ db' = [db EXCEPT !.members =
                        @ \cup {[sha256 |-> IF f \in {1, 2, 3, 4} THEN S1 ELSE S2,
                                 file_id |-> f,
                                 role |-> ResolverFiles[f].role]}]
    /\ before' = db'
    /\ UNCHANGED <<inputs, pure, fs, cursor_file, pc, loc, invocations,
                   exit_status, verify_outs, results_out, dedupe_outs, history>>

InitResolveGrow ==
    /\ stage = "rescan"
    /\ InitResolveStore

NextResolveGrow ==
    \/ NextResolve
    \/ AddMember

SpecResolveGrow == InitResolveGrow /\ [][NextResolveGrow]_vars

\* C11: in a resolver run without --force-canonical, every canonical
\* reference that was non-null when the run started has the same value at
\* every point of the run, whatever members the group has gained since the
\* reference was set.
C11_CanonicalSetOnce ==
    (/\ stage = "rescan"
     /\ pc = "loop"
     /\ ~args.force_canonical)
    => \A sha256 \in {S1, S2} :
           CanonicalOf(before, sha256) # NoFile
           => CanonicalOf(db, sha256) = CanonicalOf(before, sha256)

\* The first group's canonical was the staging file 2; the library file 1
\* joined the group afterwards, and a run without force that looks at all
\* groups has processed the group and left the reference at 2.
C11_Witness ==
    /\ stage = "rescan"
    /\ pc = "loop"
    /\ invocations = 2
    /\ ~args.force_canonical
    /\ ~args.only_missing_canonical
    /\ loc.i >= 1
    /\ loc.groups[1].sha256 = S1
    /\ CanonicalOf(before, S1) = 2
    /\ \E m \in db.members : m.sha256 = S1 /\ m.file_id = 1
    /\ CanonicalOf(db, S1) = 2

---------------------------------------------------------------------------
(* The provenance weights: C12.                                            *)

\* The stems of the two files' names are equal and so are the lists of
\* their directories.
SameStemAndDirectories(o, c) ==
    /\ stem_and_ext(normalize_rel_path(o.path))[1]
           = stem_and_ext(normalize_rel_path(c.path))[1]
    /\ SubSeq(split_path_parts(o.path), 1, Len(split_path_parts(o.path)) - 1)
           = SubSeq(split_path_parts(c.path), 1,
                    Len(split_path_parts(c.path)) - 1)

\* The run in progress has been through the group and had a candidate for
\* it, so it has written the group's provenance.
WrittenGroup(sha256) ==
    /\ \E k \in 1..loc.i : loc.groups[k].sha256 = sha256
    /\ choose_canonical_candidate(fetch_group_members(db, sha256),
                                  args.allow_original_fallback) # NoCandidate

\* The provenance rows the run in progress has inserted: with
\* --append-provenance the rows after those of the start of the run, and
\* else the rows of the groups the run has written.
InsertedRows ==
    IF args.append_provenance
    THEN SubSeq(db.provenance, Len(before.provenance) + 1, Len(db.provenance))
    ELSE SelectSeq(db.provenance, LAMBDA p : WrittenGroup(p.sha256))

WeightInUnitInterval(p) ==
    /\ ~DoubleLess(p.weight, Double(0, 1))
    /\ ~DoubleLess(Double(1, 1), p.weight)

\* C12 (refuted by the code): every row a run inserts has a weight in
\* [0, 1] that is not below --min-weight, and the row of an original with
\* the stem and the directories of the group's canonical file has a weight
\* of at least 0.9.
C12_ProvenanceWeights ==
    (stage = "resolve" /\ pc = "loop")
    => \A k \in 1..Len(InsertedRows) :
           /\ WeightInUnitInterval(InsertedRows[k])
           /\ ~DoubleLess(InsertedRows[k].weight, args.min_weight)
           /\ SameStemAndDirectories(
                  db.files[InsertedRows[k].original_file_id],
                  db.files[CanonicalOf(db, InsertedRows[k].sha256)])
              => ~DoubleLess(InsertedRows[k].weight, Double(9, 10))

---------------------------------------------------------------------------
(* The scan engine (scan.py) over the content store (db.py).               *)
(*                                                                         *)
(* The store of this program is [files, hash_groups, members, runs]; the   *)
(* disk is [base, files]: the roots whose base path exists and the state   *)
(* of each file the roots can hold.  One scan of one root is one           *)
(* transaction, and so one action.                                         *)

\* The roots table: two active roots and one that was retired.
ScanRoots ==
    <<[root_id |-> 1, name |-> "lib", type |-> "library", is_active |-> TRUE],
      [root_id |-> 2, name |-> "cam", type |-> "original", is_active |-> TRUE],
      [root_id |-> 3, name |-> "old", type |-> "staging", is_active |-> FALSE]>>

\* The files the base paths can hold, in the order of the walk.
ScanFiles ==
    <<[root_id |-> 1, path |-> "a.jpg", ext |-> ".jpg"],
      [root_id |-> 1, path |-> "b.mp4", ext |-> ".mp4"],
      [root_id |-> 2, path |-> "a.jpg", ext |-> ".jpg"]>>

\* A NULL sha256 and a NULL run_id.
NoDigest == <<>>
NoRun == 0

\* A file on disk: its bytes (by digest) and its size and mtime (one stamp);
\* Gone is a path with no file.
Gone == [digest |-> NoDigest, stamp |-> 0]
OnDisk(digest, stamp) == [digest |-> digest, stamp |-> stamp]
DiskStates == {Gone, OnDisk(H1, 1), OnDisk(H2, 2)}

IMAGE_EXTS == {".jpg", ".jpeg", ".png"}
VIDEO_EXTS == {".mp4", ".mov"}

resolve_media_type(ext) ==
    IF ext \in IMAGE_EXTS THEN "image"
    ELSE IF ext \in VIDEO_EXTS THEN "video"
    ELSE "other"

\* sanitize_ext_list gives None (here {}) for no --include-ext.
NoFilter == {}

should_include(ext, include_filter, media_type_filter) ==
    IF include_filter # NoFilter /\ ext \notin include_filter THEN FALSE
    ELSE IF media_type_filter = "all" THEN TRUE
    ELSE resolve_media_type(ext) = media_type_filter

\* fetch_roots: the active roots, or the active root of that name.
fetch_roots(root_name) ==
    SelectSeq(ScanRoots,
              LAMBDA r : r.is_active /\ (root_name = "" \/ r.name = root_name))

\* The role a root gives to its files, scan_root line 212.
RoleOf(root) ==
    IF root.type \in {"original", "library", "staging"} THEN root.type
    ELSE "library"

\* load_existing_file: the index of the row of that path, 0 for None.
load_existing_file(files, root_id, rel_path) ==
    IF \E k \in 1..Len(files) :
           files[k].root_id = root_id /\ files[k].path = rel_path
    THEN CHOOSE k \in 1..Len(files) :
             files[k].root_id = root_id /\ files[k].path = rel_path
    ELSE 0

\* hash_needed, lines 289-294.
hash_needed(a, prev_sha, prev_stamp, stamp) ==
    IF a.hash_mode = "none" \/ a.dry_run THEN FALSE
    ELSE IF a.hash_mode = "missing" THEN prev_sha = NoDigest
    ELSE prev_sha = NoDigest \/ prev_stamp # stamp

\* The UPDATE of lines 312-319.
UpdateFile(files, k, stamp, run_id) ==
    [files EXCEPT ![k].stamp = stamp, ![k].status = Active,
                  ![k].last_seen_run_id = run_id]

\* The INSERT of lines 324-344; lastrowid is the next file_id.
InsertFile(files, f, stamp, run_id) ==
    Append(files, [file_id |-> Len(files) + 1, root_id |-> f.root_id,
                   path |-> f.path, ext |-> f.ext, stamp |-> stamp,
                   status |-> Active, last_seen_run_id |-> run_id,
                   sha256 |-> NoDigest])

\* The walk has the row of a file (k, 0 when it is new) and writes it.
WalkWrite(s, n, st, k, run_id, a, role, needed) ==
    [s EXCEPT
        !.files = IF k # 0 THEN UpdateFile(@, k, st.stamp, run_id)
                  ELSE InsertFile(@, ScanFiles[n], st.stamp, run_id),
        !.pending = IF needed
                    THEN Append(@, [file_id |-> IF k # 0 THEN s.files[k].file_id
                                                ELSE Len(s.files) + 1,
                                    n |-> n, role |-> role])
                    ELSE @]

\* A file that passed the filter and whose stat() worked, lines 280-357.
WalkStat(s, n, st, k, run_id, a, role) ==
    IF a.dry_run THEN s
    ELSE WalkWrite(s, n, st, k, run_id, a, role,
                   hash_needed(a, IF k = 0 THEN NoDigest ELSE s.files[k].sha256,
                               IF k = 0 THEN 0 ELSE s.files[k].stamp,
                               st.stamp))

\* The except of lines 359-382: the error is counted, and raised again
\* when --max-errors is reached.
WalkError(s, a) ==
    [s EXCEPT !.error_count = @ + 1,
              !.raised = a.max_errors # 0 /\ s.error_count + 1 >= a.max_errors]

\* One file of the walk, lines 241-382.  outcome says what the file system
\* and the database did: "ok", "stat_failed" (stat() raised), "error" (the
\* row could not be read or written) or "unreadable" (the hash will fail).
WalkFile(s, n, st, outcome, root, run_id, a) ==
    IF s.raised \/ ScanFiles[n].root_id # root.root_id \/ st = Gone THEN s
    ELSE IF ~should_include(ScanFiles[n].ext, a.include_ext, a.media_type)
    THEN s
    ELSE IF outcome = "stat_failed"
    THEN [s EXCEPT !.seen_paths = @ \cup {ScanFiles[n].path}]
    ELSE IF outcome = "error"
    THEN WalkError([s EXCEPT !.seen_paths = @ \cup {ScanFiles[n].path}], a)
    ELSE WalkStat([s EXCEPT !.seen_paths = @ \cup {ScanFiles[n].path}], n, st,
                  load_existing_file(s.files, root.root_id, ScanFiles[n].path),
                  run_id, a, RoleOf(root))

\* os.walk over the base path of a root.
RECURSIVE WalkFrom(_, _, _, _, _, _, _)
WalkFrom(s, n, disk, outcomes, root, run_id, a) ==
    IF n > Len(ScanFiles) THEN s
    ELSE WalkFrom(WalkFile(s, n, disk.files[n], outcomes[n], root, run_id, a),
                  n + 1, disk, outcomes, root, run_id, a)

Walk(store, disk, outcomes, root, run_id, a) ==
    WalkFrom([files |-> store.files, pending |-> <<>>, seen_paths |-> {},
              error_count |-> 0, raised |-> FALSE],
             1, disk, outcomes, root, run_id, a)

\* mark_missing: the active rows of the root whose last_seen_run_id is
\* neither NULL nor this run.
RECURSIVE MarkFrom(_, _, _, _)
MarkFrom(files, k, root_id, run_id) ==
    IF k > Len(files) THEN files
    ELSE MarkFrom(IF /\ files[k].root_id = root_id
                     /\ files[k].status = Active
                     /\ files[k].last_seen_run_id # NoRun
                     /\ files[k].last_seen_run_id # run_id
                  THEN [files EXCEPT ![k].status = Missing,
                                     ![k].last_seen_run_id = run_id]
                  ELSE files,
                  k + 1, root_id, run_id)

mark_missing(files, root_id, run_id) == MarkFrom(files, 1, root_id, run_id)

\* hash_file: <<digest, error>>.
hash_file(st, outcome) ==
    IF outcome = "unreadable" \/ st = Gone THEN <<NoDigest, "error">>
    ELSE <<st.digest, "">>

\* An upsert that numbers the groups as they arrive.
ensure_hash_group_numbered(hash_groups, sha256, run_id) ==
    IF \E g \in 1..Len(hash_groups) : hash_groups[g].sha256 = sha256
    THEN hash_groups
    ELSE Append(hash_groups, [sha256 |-> sha256,
                              first_seen_run_id |-> Len(hash_groups) + 1,
                              last_seen_run_id |-> run_id])

ensure_hash_group(hash_groups, sha256, run_id) ==
    IF \E g \in 1..Len(hash_groups) : hash_groups[g].sha256 = sha256
    THEN [hash_groups EXCEPT
             ![CHOOSE g \in 1..Len(hash_groups) :
                   hash_groups[g].sha256 = sha256].last_seen_run_id = run_id]
    ELSE Append(hash_groups, [sha256 |-> sha256, first_seen_run_id |-> run_id,
                              last_seen_run_id |-> run_id])

\* INSERT OR IGNORE: a membership is unique per (sha256, file_id).
ensure_membership(members, sha256, file_id, role) ==
    IF \E m \in members : m.sha256 = sha256 /\ m.file_id = file_id
    THEN members
    ELSE members \cup {[sha256 |-> sha256, file_id |-> file_id, role |-> role]}

apply_hash_updates(store, item, digest, run_id) ==
    [store EXCEPT
        !.files = [@ EXCEPT ![item.file_id].sha256 = digest,
                            ![item.file_id].last_seen_run_id = run_id],
        !.hash_groups = ensure_hash_group(@, digest, run_id),
        !.members = ensure_membership(@, digest, item.file_id, item.role)]

\* The hashing loop, lines 389-426.
HashItem(store, item, hashed, run_id) ==
    IF hashed[2] # "" \/ hashed[1] = NoDigest THEN store
    ELSE apply_hash_updates(store, item, hashed[1], run_id)

RECURSIVE HashFrom(_, _, _, _, _, _)
HashFrom(store, pending, p, disk, outcomes, run_id) ==
    IF p > Len(pending) THEN store
    ELSE HashFrom(HashItem(store, pending[p],
                           hash_file(disk.files[pending[p].n],
                                     outcomes[pending[p].n]),
                           run_id),
                  pending, p + 1, disk, outcomes, run_id)

\* scan_root after the walk, lines 385-428: what is committed.
AfterWalk(store, s, disk, outcomes, root, run_id, a) ==
    IF a.dry_run THEN store
    ELSE IF a.hash_mode = "none"
    THEN [store EXCEPT !.files = mark_missing(s.files, root.root_id, run_id)]
    ELSE HashFrom([store EXCEPT
                      !.files = mark_missing(s.files, root.root_id, run_id)],
                  s.pending, 1, disk, outcomes, run_id)

scan_root(store, disk, outcomes, root, run_id, a) ==
    AfterWalk(store, Walk(store, disk, outcomes, root, run_id, a), disk,
              outcomes, root, run_id, a)

\* db.py.
begin_run(runs) ==
    Append(runs, [run_id |-> Len(runs) + 1, status |-> "running", notes |-> ""])

end_run_ok(runs, run_id, notes) ==
    [runs EXCEPT ![run_id].status = "ok", ![run_id].notes = notes]

end_run_failed_lost(runs, run_id, error) == runs

end_run_failed(runs, run_id, error) ==
    [runs EXCEPT ![run_id].status = "failed", ![run_id].notes = error]

\* parse_args with no option given.
ScanDefaults ==
    [dry_run |-> FALSE, root |-> "", include_ext |-> NoFilter,
     media_type |-> "all", hash_mode |-> "missing_or_changed",
     max_errors |-> 0]

\* The command lines of the scan: the defaults, and the defaults with one
\* option.
ScanArgs ==
    {ScanDefaults,
     [ScanDefaults EXCEPT !.dry_run = TRUE],
     [ScanDefaults EXCEPT !.root = "old"],
     [ScanDefaults EXCEPT !.media_type = "image"],
     [ScanDefaults EXCEPT !.hash_mode = "none"],
     [ScanDefaults EXCEPT !.hash_mode = "missing"],
     [ScanDefaults EXCEPT !.max_errors = 1]}

MaxScans == 1   \* scans in one behaviour

ScanOutcomes == {"ok", "stat_failed", "error", "unreadable"}

\* What can happen to the files of a root during one scan: at most one
\* file of the root, and one that is there, fails.
OutcomesOf(disk, root_id) ==
    {o \in [1..Len(ScanFiles) -> ScanOutcomes] :
        /\ \A n \in 1..Len(ScanFiles) :
               (ScanFiles[n].root_id # root_id \/ disk.files[n] = Gone)
               => o[n] = "ok"
        /\ Cardinality({n \in 1..Len(ScanFiles) : o[n] # "ok"}) <= 1}

\* The rows an earlier scan (run 1) left for the files of a set: all were
\* seen with the bytes H1.
RECURSIVE RowsOf(_, _)
RowsOf(S, n) ==
    IF n > Len(ScanFiles) THEN <<>>
    ELSE IF n \in S
    THEN <<[root_id |-> ScanFiles[n].root_id, path |-> ScanFiles[n].path,
            ext |-> ScanFiles[n].ext, stamp |-> 1, status |-> Active,
            last_seen_run_id |-> 1, sha256 |-> H1]>> \o RowsOf(S, n + 1)
    ELSE RowsOf(S, n + 1)

RECURSIVE WithFileIds(_, _)
WithFileIds(rows, k) ==
    IF k > Len(rows) THEN <<>>
    ELSE <<[file_id |-> k, root_id |-> rows[k].root_id, path |-> rows[k].path,
            ext |-> rows[k].ext, stamp |-> rows[k].stamp,
            status |-> rows[k].status,
            last_seen_run_id |-> rows[k].last_seen_run_id,
            sha256 |-> rows[k].sha256]>> \o WithFileIds(rows, k + 1)

StoreOf(files) ==
    [files |-> files,
     hash_groups |-> IF files = <<>> THEN <<>>
                     ELSE <<[sha256 |-> H1, first_seen_run_id |-> 1,
                             last_seen_run_id |-> 1]>>,
     members |-> {[sha256 |-> H1, file_id |-> files[k].file_id,
                   role |-> RoleOf(ScanRoots[files[k].root_id])] :
                     k \in 1..Len(files)},
     runs |-> <<[run_id |-> 1, status |-> "ok", notes |-> "summary"]>>]

InitScan ==
    /\ stage = "scan"
    /\ \E S \in {{2, 3}}, base \in {{1}, {1, 2}} :
           /\ db = StoreOf(WithFileIds(RowsOf(S, 1), 1))
           /\ fs = [base |-> base,
                    files |-> [n \in 1..Len(ScanFiles) |->
                                  IF n \in S THEN OnDisk(H1, 1) ELSE Gone]]
    /\ args = <<>>
    /\ manifest = <<>>
    /\ loc = <<>>
    /\ cursor_file = NoCursor
    /\ pc = "idle"
    /\ invocations = 0
    /\ exit_status = <<>>
    /\ verified_out = <<>>
    /\ unverified_out = <<>>
    /\ results_out = <<>>
    /\ keep_out = <<>>
    /\ dupes_out = <<>>
    /\ before = db
    /\ history = {}
    /\ call = NoCall
    /\ returned = NoReturn

\* The per-file failures of one walk, as they are logged: a file the walk
\* reached whose stat() raised or whose row could not be read or written,
\* and a file queued for hashing whose read failed.
FailuresOf(s, o, root, a) ==
    {[run |-> invocations, idx |-> n, outcome |-> o[n]] :
        n \in {m \in 1..Len(ScanFiles) :
                  /\ ScanFiles[m].root_id = root.root_id
                  /\ ScanFiles[m].path \in s.seen_paths
                  /\ \/ o[m] \in {"stat_failed", "error"}
                     \/ /\ o[m] = "unreadable"
                        /\ ~a.dry_run /\ a.hash_mode # "none"
                        /\ \E p \in 1..Len(s.pending) : s.pending[p].n = m}}

\* main(), lines 477-487: the run is begun (and committed) unless the scan
\* is a dry run, and the roots are fetched.
ScanStart ==
    /\ stage = "scan"
    /\ pc = "idle"
    /\ invocations < MaxScans
    /\ \E a \in ScanArgs :
           /\ args' = a
           /\ db' = IF a.dry_run THEN db
                    ELSE [db EXCEPT !.runs = begin_run(@)]
           /\ loc' = [roots |-> fetch_roots(a.root), i |-> 0,
                      run_id |-> IF a.dry_run THEN NoRun
                                 ELSE Len(db.runs) + 1,
                      walked |-> FALSE, seen_paths |-> {}, prior |-> db']
    /\ invocations' = invocations + 1
    /\ before' = db
    /\ pc' = "roots"
    /\ exit_status' = Append(exit_status, "running")
    /\ history' = {}
    /\ UNCHANGED <<stage, manifest, pure, fs, cursor_file, verify_outs,
                   results_out, dedupe_outs>>

\* How an invocation of the scan ends.
ScanExit(status) ==
    /\ pc' = "idle"
    /\ exit_status' = [exit_status EXCEPT ![invocations] = status]
    /\ args' = <<>>
    /\ loc' = <<>>
    /\ UNCHANGED <<stage, manifest, pure, fs, cursor_file, invocations,
                   verify_outs, results_out, dedupe_outs, before>>

\* Lines 488-492: no active root to scan.
ScanNoRoots ==
    /\ stage = "scan"
    /\ pc = "roots"
    /\ loc.roots = <<>>
    /\ db' = IF loc.run_id # NoRun /\ ~args.dry_run
             THEN [db EXCEPT !.runs = end_run_ok(@, loc.run_id, "no roots")]
             ELSE db
    /\ history' = history
    /\ ScanExit("ok")

\* A scan_root without the early return: nothing is seen under the base
\* path, and the rows of the root are marked.
ScanRootSkipped_marking ==
    /\ stage = "scan"
    /\ pc = "roots"
    /\ loc.i < Len(loc.roots)
    /\ loc.roots[loc.i + 1].root_id \notin fs.base
    /\ db' = IF args.dry_run THEN db
             ELSE [db EXCEPT !.files = mark_missing(@, loc.roots[loc.i + 1].root_id,
                                                    loc.run_id)]
    /\ loc' = [loc EXCEPT !.i = @ + 1, !.walked = FALSE, !.seen_paths = {},
                          !.prior = db]
    /\ UNCHANGED <<inputs, pure, fs, cursor_file, pc, invocations,
                   exit_status, verify_outs, results_out, dedupe_outs,
                   history, before>>

\* scan_root, lines 226-232: the base path is not there and the root is
\* skipped.
ScanRootSkipped ==
    /\ stage = "scan"
    /\ pc = "roots"
    /\ loc.i < Len(loc.roots)
    /\ loc.roots[loc.i + 1].root_id \notin fs.base
    /\ loc' = [loc EXCEPT !.i = @ + 1, !.walked = FALSE, !.seen_paths = {},
                          !.prior = db]
    /\ UNCHANGED <<inputs, pure, fs, cursor_file, pc, db, invocations,
                   exit_status, verify_outs, results_out, dedupe_outs,
                   history, before>>

\* scan_root returns: the walk, the marking, the hashing and the commit.
ScanRoot ==
    /\ stage = "scan"
    /\ pc = "roots"
    /\ loc.i < Len(loc.roots)
    /\ loc.roots[loc.i + 1].root_id \in fs.base
    /\ \E o \in OutcomesOf(fs, loc.roots[loc.i + 1].root_id) :
           /\ ~Walk(db, fs, o, loc.roots[loc.i + 1], loc.run_id, args).raised
           /\ db' = scan_root(db, fs, o, loc.roots[loc.i + 1], loc.run_id, args)
           /\ loc' = [loc EXCEPT
                         !.i = @ + 1, !.walked = TRUE,
                         !.seen_paths = Walk(db, fs, o, loc.roots[loc.i + 1],
                                             loc.run_id, args).seen_paths,
                         !.prior = db]
           /\ history' = history \cup
                  FailuresOf(Walk(db, fs, o, loc.roots[loc.i + 1], loc.run_id,
                                  args), o, loc.roots[loc.i + 1], args)
    /\ UNCHANGED <<inputs, pure, fs, cursor_file, pc, invocations,
                   exit_status, verify_outs, results_out, dedupe_outs, before>>

\* scan_root raises, because --max-errors is reached or because the
\* database does (at BEGIN, in mark_missing, at the commit): main() rolls
\* the transaction back (lines 505-515) and marks the run failed (lines
\* 531-535).
ScanRootRaises ==
    /\ stage = "scan"
    /\ pc = "roots"
    /\ loc.i < Len(loc.roots)
    /\ loc.roots[loc.i + 1].root_id \in fs.base
    /\ \E error \in {"max errors", "database"} :
           /\ IF error = "max errors"
              THEN \E o \in OutcomesOf(fs, loc.roots[loc.i + 1].root_id) :
                       /\ Walk(db, fs, o, loc.roots[loc.i + 1], loc.run_id,
                               args).raised
                       /\ history' = history \cup
                              FailuresOf(Walk(db, fs, o, loc.roots[loc.i + 1],
                                              loc.run_id, args),
                                         o, loc.roots[loc.i + 1], args)
              ELSE history' = history \cup
                       {[run |-> invocations, idx |-> 0, outcome |-> "database"]}
           /\ db' = IF loc.run_id # NoRun /\ ~args.dry_run
                    THEN [db EXCEPT
                             !.runs = end_run_failed(@, loc.run_id, error)]
                    ELSE db
    /\ ScanExit("failed")

\* Lines 517-530: all roots are scanned.
ScanFinish ==
    /\ stage = "scan"
    /\ pc = "roots"
    /\ loc.roots # <<>>
    /\ loc.i = Len(loc.roots)
    /\ db' = IF loc.run_id # NoRun /\ ~args.dry_run
             THEN [db EXCEPT !.runs = end_run_ok(@, loc.run_id, "summary")]
             ELSE db
    /\ history' = history
    /\ ScanExit("ok")

\* Before a scan a file appears, goes or gets other bytes.
DiskChange ==
    /\ stage = "scan"
    /\ pc = "idle"
    /\ invocations < MaxScans
    /\ \E n \in 1..Len(ScanFiles), st \in DiskStates :
           /\ st # fs.files[n]
           /\ fs' = [fs EXCEPT !.files[n] = st]
    /\ UNCHANGED <<inputs, pure, db, cursor_file, pc, loc, invocations,
                   exit_status, verify_outs, results_out, dedupe_outs,
                   history, before>>

NextScan ==
    \/ ScanStart
    \/ ScanNoRoots
    \/ ScanRootSkipped
    \/ ScanRoot
    \/ ScanRootRaises
    \/ ScanFinish
    \/ DiskChange

SpecScan == InitScan /\ [][NextScan]_vars

\* The root whose scan has just completed.
ScannedRoot == loc.roots[loc.i].root_id

\* C13: after a scan of a root that is no dry run completes, every File row
\* of the root that the walk observed is active and was last seen in the
\* current run, every other File row of the root is missing, and the File
\* rows of the other roots are as they were.
C13_ScanReconcilesRoot ==
    (/\ stage = "scan"
     /\ pc = "roots"
     /\ ~args.dry_run
     /\ loc.i >= 1
     /\ loc.walked)
    => \A k \in 1..Len(db.files) :
           IF db.files[k].root_id = ScannedRoot
           THEN IF db.files[k].path \in loc.seen_paths
                THEN /\ db.files[k].status = Active
                     /\ db.files[k].last_seen_run_id = loc.run_id
                ELSE db.files[k].status = Missing
           ELSE /\ k <= Len(loc.prior.files)
                /\ db.files[k] = loc.prior.files[k]


\* The File row of a file_id.
FileOf(store, file_id) ==
    store.files[CHOOSE k \in 1..Len(store.files) :
                    store.files[k].file_id = file_id]

\* C14: in what a scan has committed, every membership (h, f) is of a File
\* f whose recorded hash is h, also when the bytes of f changed and f was
\* hashed again under missing_or_changed.
C14_MembershipMatchesFile ==
    (stage = "scan" /\ invocations >= 1)
    => \A m \in db.members : FileOf(db, m.file_id).sha256 = m.sha256


Finalized(run) == run.status \in {"ok", "failed"}

\* What one step of a scan does to the runs table.
RunStep ==
    stage = "scan"
    => /\ \A r \in 1..Len(db.runs) :
              /\ r <= Len(db'.runs)
              /\ Finalized(db.runs[r]) => db'.runs[r] = db.runs[r]
       /\ IF invocations' = invocations + 1 /\ ~args'.dry_run
          THEN /\ Len(db'.runs) = Len(db.runs) + 1
               /\ db'.runs[Len(db'.runs)].status = "running"
               /\ loc'.run_id = Len(db'.runs)
          ELSE Len(db'.runs) = Len(db.runs)
       /\ (pc = "roots" /\ ~args.dry_run)
              => /\ db.runs[loc.run_id].status = "running"
                 /\ IF pc' = "idle" THEN Finalized(db'.runs[loc.run_id])
                    ELSE db'.runs[loc.run_id] = db.runs[loc.run_id]

\* C15: a scan that is no dry run creates exactly one Run, with status
\* running; however the invocation ends (all roots scanned, no active
\* root, an exception in the scan of a root, --max-errors reached) the Run
\* goes from running to ok or failed in the step that ends it, and a Run
\* that is ok or failed is never written again.
C15_RunFinalizedOnce == [][RunStep]_vars

\* A scan was stopped by --max-errors and has left its Run failed.
C15_Witness ==
    /\ stage = "scan"
    /\ pc = "idle"
    /\ invocations >= 1
    /\ exit_status[invocations] = "failed"
    /\ db.runs[Len(db.runs)].status = "failed"
    /\ db.runs[Len(db.runs)].notes = "max errors"
    /\ Len(db.runs) = Len(before.runs) + 1


---------------------------------------------------------------------------
(* The cursor of Verify and Apply-Deletion: C16.                           *)

\* The rows (0-based) of the batch that starts at cursor c.
Window(c) ==
    {idx \in 0..(Len(manifest) - 1) :
        c <= idx /\ idx < Min(c + args.limit, Len(manifest))}

\* The rows an invocation has processed.
RowsOfRun(k) == {h.idx : h \in {g \in history : g.run = k}}

\* The rows with an outcome among those of a set, in ascending order.
RowsWith(outcomes) ==
    Ascending({h.idx : h \in {g \in history : g.outcome \in outcomes}})

\* An output manifest holds the rows of idxs, in that order.
HoldsRows(out, idxs) ==
    /\ Len(out) = Len(idxs)
    /\ \A j \in 1..Len(out) :
           out[j].source_path = manifest[idxs[j] + 1].source_path

\* The latest invocation completed: it processed the batch that starts at
\* the cursor it found, and saved the end of that batch.
CompletedBatch ==
    /\ RowsOfRun(invocations)
           = Window(LoadStateOrZero(TRUE, before.cursor_file))
    /\ cursor_file.exists
    /\ cursor_file.cursor
           = Min(LoadStateOrZero(TRUE, before.cursor_file) + args.limit,
                 Len(manifest))

\* All invocations so far completed: each row before the cursor was
\* processed once, by the invocation of its batch, and the outputs hold
\* the rows in the order of the manifest.
AllCompleted ==
    /\ cursor_file.cursor = Min(invocations * args.limit, Len(manifest))
    /\ \A idx \in 0..(Len(manifest) - 1) :
           IF idx < cursor_file.cursor
           THEN /\ Cardinality({h \in history : h.idx = idx}) = 1
                /\ idx \in RowsOfRun((idx \div args.limit) + 1)
           ELSE \A h \in history : h.idx # idx
    /\ IF stage = "verify"
       THEN /\ HoldsRows(verified_out, RowsWith({"verified"}))
            /\ HoldsRows(unverified_out, RowsWith({"unverified"}))
       ELSE HoldsRows(results_out, Ascending(0..(cursor_file.cursor - 1)))

\* C16: Verify and Apply-Deletion invoked again and again with the same
\* --state-file, --offset 0 and --limit L over the same manifest of N rows:
\* an invocation that completes has processed exactly the rows
\* [c, min(c + L, N)) from the cursor c it found (0 at first), so at most L
\* rows, and has saved min(c + L, N); when all invocations completed the
\* cursor is the number of rows processed from the start, and after
\* ceil(N / L) invocations every row was processed exactly once, in the
\* order of the manifest.
C16_CursorWindows ==
    (/\ stage \in {"verify", "apply"}
     /\ args.offset = 0
     /\ args.state_file
     /\ invocations >= 1
     /\ pc = "idle"
     /\ LastExit = "ok")
    => /\ CompletedBatch
       /\ (\A k \in 1..invocations : exit_status[k] = "ok")
              => /\ AllCompleted
                 /\ invocations * args.limit >= Len(manifest)
                        => cursor_file.cursor = Len(manifest)

\* Two rows with --limit 1: the second invocation of Apply-Deletion has
\* completed and processed the second row only.
C16_Witness ==
    /\ stage = "apply"
    /\ args.offset = 0
    /\ args.state_file
    /\ args.limit = 1
    /\ Len(manifest) = 2
    /\ invocations = 2
    /\ pc = "idle"
    /\ exit_status = <<"ok", "ok">>
    /\ RowsOfRun(1) = {0}
    /\ RowsOfRun(2) = {1}
    /\ cursor_file.cursor = 2


---------------------------------------------------------------------------
(* Dry runs: C17.                                                          *)

\* What a real run of Apply-Deletion records for n rows from row idx on,
\* starting with a disk and with no failing unlink or move.
RECURSIVE RealApplyFrom(_, _, _)
RealApplyNext(idx, n, r) ==
    <<[action |-> r.action, path |-> r.path]>>
        \o RealApplyFrom(idx + 1, n - 1, r.fs)

RealApplyFrom(idx, n, disk) ==
    IF n = 0 \/ idx >= Len(manifest) THEN <<>>
    ELSE RealApplyNext(idx, n,
                       _process_row(manifest[idx + 1],
                                    [args EXCEPT !.dry_run = FALSE], disk, FALSE))

\* The same for Dedupe (lines 364-405) and the actions it computed.
RECURSIVE RealDedupeFrom(_, _, _, _)
RealDedupeMoved(actions, idx, n, disk, from, to) ==
    <<[action |-> "quarantine", path |-> to]>>
        \o RealDedupeFrom(actions, idx + 1, n - 1, MoveFile(disk, from, to))

RealDedupeFrom(actions, idx, n, disk) ==
    IF n = 0 \/ idx >= Len(actions) THEN <<>>
    ELSE IF ~Lookup(disk, actions[idx + 1].entry.dest_path).exists
    THEN <<[action |-> "missing",
            path |-> _quarantine_destination(QuarantineRoot,
                                             actions[idx + 1].entry, disk)]>>
             \o RealDedupeFrom(actions, idx + 1, n - 1, disk)
    ELSE RealDedupeMoved(actions, idx, n, disk, actions[idx + 1].entry.dest_path,
                         get_unique_destination_path(
                             _quarantine_destination(QuarantineRoot,
                                                     actions[idx + 1].entry, disk),
                             disk))

\* A dry run of Dedupe writes "dry-run-quarantine" for "quarantine".
SameAction(dry, real) ==
    \/ dry = real
    \/ dry = "dry-run-quarantine" /\ real = "quarantine"

\* C17: a dry run of Dedupe or Apply-Deletion leaves the filesystem as it
\* was, and the action and the quarantine path it records for each row are
\* those a real run over the same manifest, from the same filesystem,
\* records for the row.
C17_DryRunSameDecisions ==
    (/\ stage \in {"dedupe", "apply"}
     /\ args.dry_run
     /\ invocations = 1)
    => /\ fs = before.fs
       /\ stage = "apply"
              => \A j \in 1..Len(results_out) :
                     /\ SameAction(results_out[j].action_taken,
                                   RealApplyFrom(args.offset, Len(results_out),
                                                 before.fs)[j].action)
                     /\ results_out[j].destination_quarantine_path
                            = RealApplyFrom(args.offset, Len(results_out),
                                            before.fs)[j].path
       /\ stage = "dedupe"
              => \A j \in 1..Len(dupes_out) :
                     /\ SameAction(dupes_out[j].action_taken,
                                   RealDedupeFrom(DedupeComputed.actions, 0,
                                                  Len(dupes_out),
                                                  before.fs)[j].action)
                     /\ dupes_out[j].quarantine_path
                            = RealDedupeFrom(DedupeComputed.actions, 0,
                                             Len(dupes_out), before.fs)[j].path

---------------------------------------------------------------------------
(* The rule-tag deriver (extract_rule_tags.py).                            *)
(*                                                                         *)
(* The store holds rule_tags (a tag's id is its position) and the rows of  *)
(* hash_group_rule_tags; a folder segment of a path is the list of the     *)
(* words _normalize_segment leaves of it.                                  *)

STATE_TAGS ==
    <<"has_library_canonical", "originals_only", "library_only",
      "multi_library_candidates", "provenance_missing", "needs_review">>

INGEST_TAGS == <<"event", "person", "folder_year">>

DEFAULT_EVENT_KEYWORDS == {"wedding", "trip"}
DEFAULT_STOPWORDS == {<<"misc">>}

\* The files of the store: the folder segments of their paths.
TagFiles ==
    <<[file_id |-> 1, path |-> <<<<"2020">>, <<"wedding", "anna">>>>,
       last_seen_run_id |-> 2],
      [file_id |-> 2, path |-> <<<<"trip", "2019">>>>, last_seen_run_id |-> 1],
      [file_id |-> 3, path |-> <<<<"misc">>>>, last_seen_run_id |-> 2]>>

TagMembers ==
    {[sha256 |-> S1, file_id |-> 1, role |-> "staging"],
     [sha256 |-> S1, file_id |-> 2, role |-> "original"],
     [sha256 |-> S2, file_id |-> 3, role |-> "library"]}

TagGroups ==
    <<[sha256 |-> S1, canonical_library_file_id |-> NoFile],
      [sha256 |-> S2, canonical_library_file_id |-> 3]>>

\* parse_args with no option given; people is the whitelist of the
\* --config-dir (empty by default).
TagDefaults ==
    [scope |-> "both", roles |-> {"staging"}, only_new |-> FALSE,
     dry_run |-> FALSE, rebuild_state |-> TRUE, rebuild_ingest |-> FALSE,
     people |-> {}]

TagArgs ==
    {TagDefaults,
     [TagDefaults EXCEPT !.scope = "state"],
     [TagDefaults EXCEPT !.scope = "ingest"],
     [TagDefaults EXCEPT !.roles = {"original"}],
     [TagDefaults EXCEPT !.only_new = TRUE, !.roles = {"staging", "original"}],
     [TagDefaults EXCEPT !.dry_run = TRUE],
     [TagDefaults EXCEPT !.rebuild_ingest = TRUE],
     [TagDefaults EXCEPT !.people = {"anna"}]}

\* _upsert_tags: a tag that is not defined gets the next id.
RECURSIVE UpsertFrom(_, _, _)
UpsertFrom(rule_tags, tags, k) ==
    IF k > Len(tags) THEN rule_tags
    ELSE UpsertFrom(IF Contains(rule_tags, tags[k]) THEN rule_tags
                    ELSE Append(rule_tags, tags[k]),
                    tags, k + 1)

_upsert_tags(rule_tags, tags) == UpsertFrom(rule_tags, tags, 1)

\* tag_ids[tag].
TagId(rule_tags, tag) ==
    CHOOSE i \in 1..Len(rule_tags) : rule_tags[i] = tag

TagIds(rule_tags, tags) == {TagId(rule_tags, tags[k]) : k \in 1..Len(tags)}

\* main(), lines 425-430.
tags_to_define(scope) ==
    (IF scope \in {"state", "both"} THEN STATE_TAGS ELSE <<>>)
        \o (IF scope \in {"ingest", "both"} THEN INGEST_TAGS ELSE <<>>)

\* DELETE FROM hash_group_rule_tags WHERE tag_id IN (...).
DeleteTagged(rows, tag_ids) == {r \in rows : r.tag_id \notin tag_ids}

SameKey(r, n) ==
    r.sha256 = n.sha256 /\ r.tag_id = n.tag_id /\ r.value = n.value

\* INSERT OR REPLACE: the row of the same key is replaced.
InsertOrReplace(rows, new_rows) ==
    {r \in rows : \A n \in new_rows : ~SameKey(r, n)} \cup new_rows

\* INSERT OR IGNORE under UNIQUE(sha256, tag_id, value).
InsertOrIgnore(rows, new_rows) ==
    rows \cup {n \in new_rows : \A r \in rows : ~SameKey(r, n)}

TagRow(sha256, tag_id, value, now) ==
    [sha256 |-> sha256, tag_id |-> tag_id, value |-> value,
     created_at |-> now, updated_at |-> now]

\* The tables the deriver reads: hash_groups, file_group_members and
\* canonical_provenance.
TagStore == [groups |-> TagGroups, members |-> TagMembers, prov |-> {}]

RoleCount(members, sha256, role) ==
    Cardinality({m \in members : m.sha256 = sha256 /\ m.role = role})

\* _query_state_facts: one row of counts for each hash group.
_query_state_facts(store) ==
    {[hg |-> store.groups[g],
      original_count |-> RoleCount(store.members, store.groups[g].sha256, "original"),
      library_count |-> RoleCount(store.members, store.groups[g].sha256, "library"),
      staging_count |-> RoleCount(store.members, store.groups[g].sha256, "staging"),
      prov_originals |-> Cardinality({p \in store.prov :
                                         p.sha256 = store.groups[g].sha256})] :
        g \in 1..Len(store.groups)}

\* _derive_state_tag_rows: the state tags of one hash group.
StateTagsOf(hg, orig, lib, stg, prov) ==
    (IF hg.canonical_library_file_id # NoFile
     THEN {"has_library_canonical"} ELSE {})
    \cup (IF orig > 0 /\ lib + stg = 0 THEN {"originals_only"} ELSE {})
    \cup (IF orig = 0 /\ lib + stg > 0 THEN {"library_only"} ELSE {})
    \cup (IF lib + stg > 1 THEN {"multi_library_candidates"} ELSE {})
    \cup (IF orig > 0 /\ prov = 0 THEN {"provenance_missing"} ELSE {})
    \cup (IF \/ orig > 0 /\ lib + stg = 0
             \/ lib + stg > 1
             \/ orig > 0 /\ prov = 0
          THEN {"needs_review"} ELSE {})

_derive_state_tag_rows(rows, rule_tags, now) ==
    UNION {{TagRow(r.hg.sha256, TagId(rule_tags, tag), "1", now) :
               tag \in StateTagsOf(r.hg, r.original_count, r.library_count,
                                   r.staging_count, r.prov_originals)} :
           r \in rows}

\* _get_latest_run_id.
_get_latest_run_id ==
    CHOOSE m \in {TagFiles[k].last_seen_run_id : k \in 1..Len(TagFiles)} :
        \A k \in 1..Len(TagFiles) : TagFiles[k].last_seen_run_id <= m

\* _query_ingest_sources: the members of the roles, of the latest run only
\* with --only-new.
_query_ingest_sources(members, roles, only_new) ==
    {m \in members :
        /\ m.role \in roles
        /\ only_new
              => TagFiles[m.file_id].last_seen_run_id = _get_latest_run_id}

IsYear(word) == word \in {"2019", "2020"}

\* The values one folder segment gives to a tag.
SegmentValues(seg, tag, people) ==
    IF seg = <<>> \/ seg \in DEFAULT_STOPWORDS THEN {}
    ELSE IF tag = "folder_year"
    THEN IF \E i \in 1..Len(seg) : IsYear(seg[i])
         THEN {seg[CHOOSE i \in 1..Len(seg) :
                       /\ IsYear(seg[i])
                       /\ \A j \in 1..(i - 1) : ~IsYear(seg[j])]}
         ELSE {}
    ELSE IF tag = "event"
    THEN {seg[i] : i \in {j \in 1..Len(seg) : seg[j] \in DEFAULT_EVENT_KEYWORDS}}
    ELSE {seg[i] : i \in {j \in 1..Len(seg) : seg[j] \in people}}

\* _derive_ingest_values_from_path, for one tag.
_derive_ingest_values_from_path(path, tag, people) ==
    UNION {SegmentValues(path[s], tag, people) : s \in 1..Len(path)}

_derive_ingest_tag_rows(sources, rule_tags, people, now) ==
    UNION {UNION {{TagRow(m.sha256, TagId(rule_tags, INGEST_TAGS[t]), v, now) :
                      v \in _derive_ingest_values_from_path(
                                TagFiles[m.file_id].path, INGEST_TAGS[t], people)} :
                  t \in 1..Len(INGEST_TAGS)} :
           m \in sources}

\* A state section that does not delete before it inserts.
StateSection_keeping(rows, store, rule_tags, a, now) ==
    IF a.scope \notin {"state", "both"} \/ a.dry_run THEN rows
    ELSE InsertOrIgnore(rows,
                        _derive_state_tag_rows(_query_state_facts(store),
                                               rule_tags, now))

\* The state section of main(), lines 438-463.
StateSection(rows, store, rule_tags, a, now) ==
    IF a.scope \notin {"state", "both"} \/ a.dry_run THEN rows
    ELSE InsertOrIgnore(IF a.rebuild_state
                        THEN DeleteTagged(rows, TagIds(rule_tags, STATE_TAGS))
                        ELSE rows,
                        _derive_state_tag_rows(_query_state_facts(store),
                                               rule_tags, now))

\* The ingest section of main(), lines 468-532.
IngestSection(rows, members, rule_tags, a, now) ==
    IF a.scope \notin {"ingest", "both"} \/ a.dry_run THEN rows
    ELSE InsertOrIgnore(IF a.rebuild_ingest
                        THEN DeleteTagged(rows, TagIds(rule_tags, INGEST_TAGS))
                        ELSE rows,
                        _derive_ingest_tag_rows(
                            _query_ingest_sources(members, a.roles, a.only_new),
                            rule_tags, a.people, now))

InitTags ==
    /\ stage = "tags"
    /\ db = [rule_tags |-> <<>>, hash_group_rule_tags |-> {}]
    /\ args = <<>>
    /\ manifest = <<>>
    /\ fs = TagStore
    /\ loc = <<>>
    /\ cursor_file = NoCursor
    /\ pc = "idle"
    /\ invocations = 0
    /\ exit_status = <<>>
    /\ verified_out = <<>>
    /\ unverified_out = <<>>
    /\ results_out = <<>>
    /\ keep_out = <<>>
    /\ dupes_out = <<>>
    /\ before = db
    /\ history = {}
    /\ call = NoCall
    /\ returned = NoReturn

\* main(), lines 410-433: the tags of the scope are defined.
TagStart ==
    /\ stage = "tags"
    /\ pc = "idle"
    /\ invocations < MaxInvocations
    /\ \E a \in TagArgs :
           /\ args' = a
           /\ db' = [db EXCEPT
                        !.rule_tags = _upsert_tags(@, tags_to_define(a.scope))]
    /\ invocations' = invocations + 1
    /\ loc' = [now |-> invocations + 1]
    /\ before' = db
    /\ pc' = "state"
    /\ exit_status' = Append(exit_status, "running")
    /\ UNCHANGED <<stage, manifest, pure, fs, cursor_file, verify_outs,
                   results_out, dedupe_outs, history>>

TagState ==
    /\ stage = "tags"
    /\ pc = "state"
    /\ db' = [db EXCEPT !.hash_group_rule_tags =
                 StateSection(@, fs, db.rule_tags, args, loc.now)]
    /\ pc' = "ingest"
    /\ UNCHANGED <<inputs, pure, fs, cursor_file, loc, invocations,
                   exit_status, verify_outs, results_out, dedupe_outs,
                   history, before>>

TagIngest ==
    /\ stage = "tags"
    /\ pc = "ingest"
    /\ db' = [db EXCEPT !.hash_group_rule_tags =
                 IngestSection(@, fs.members, db.rule_tags, args, loc.now)]
    /\ pc' = "report"
    /\ UNCHANGED <<inputs, pure, fs, cursor_file, loc, invocations,
                   exit_status, verify_outs, results_out, dedupe_outs,
                   history, before>>

\* The summary, lines 537-565: nothing is written.
TagFinish ==
    /\ stage = "tags"
    /\ pc = "report"
    /\ pc' = "idle"
    /\ exit_status' = [exit_status EXCEPT ![invocations] = "ok"]
    /\ args' = <<>>
    /\ loc' = <<>>
    /\ UNCHANGED <<stage, manifest, pure, fs, cursor_file, db, invocations,
                   verify_outs, results_out, dedupe_outs, history, before>>

\* Between two runs somebody edits the value of an ingest tag by hand.
HandEdit ==
    /\ stage = "tags"
    /\ pc = "idle"
    /\ invocations \in 1..(MaxInvocations - 1)
    /\ \E r \in db.hash_group_rule_tags :
           /\ db.rule_tags[r.tag_id] \in {"event", "person"}
           /\ r.value # "party"
           /\ db' = [db EXCEPT !.hash_group_rule_tags =
                        (@ \ {r}) \cup {[r EXCEPT !.value = "party",
                                                  !.updated_at = 0]}]
    /\ UNCHANGED <<inputs, pure, fs, cursor_file, pc, loc, invocations,
                   exit_status, verify_outs, results_out, dedupe_outs,
                   history, before>>

NextTags ==
    \/ TagStart
    \/ TagState
    \/ TagIngest
    \/ TagFinish
    \/ HandEdit

SpecTags == InitTags /\ [][NextTags]_vars

\* The ingest-tag assignments of a store.
IngestRows(store) ==
    {r \in store.hash_group_rule_tags :
        store.rule_tags[r.tag_id] \in {"event", "person", "folder_year"}}

\* A step of a run without --rebuild-ingest keeps every ingest-tag
\* assignment as it is.
IngestKept ==
    (/\ stage = "tags"
     /\ pc' # "idle" \/ pc # "idle"
     /\ IF pc = "idle" THEN ~args'.rebuild_ingest ELSE ~args.rebuild_ingest)
    => IngestRows(db) \subseteq IngestRows(db')

\* C18: a run of the rule-tag deriver without --rebuild-ingest deletes and
\* modifies no ingest-tag assignment (event, person, folder_year) that
\* exists: it only adds assignments, also when it rebuilds the state tags
\* and when the assignment was edited by hand.
C18_IngestTagsSticky == [][IngestKept]_vars

\* A second run without --rebuild-ingest has rebuilt the state tags and
\* been through the ingest section; the assignment edited by hand after
\* the first run is there, and so is one the first run derived.
C18_Witness ==
    /\ stage = "tags"
    /\ pc = "report"
    /\ invocations = 2
    /\ ~args.rebuild_ingest
    /\ args.scope = "both"
    /\ ~args.dry_run
    /\ \E r \in IngestRows(db) : r.value = "party" /\ r.updated_at = 0
    /\ \E r \in IngestRows(db) : r.created_at = 1 /\ r.updated_at = 1
    /\ \E r \in IngestRows(db) : r.created_at = 2
    /\ \E r \in db.hash_group_rule_tags :
           r.created_at = 2 /\ db.rule_tags[r.tag_id] = "needs_review"

-----------------------------------------------------------------------------
\* backup_master.py: is a backup needed?
\*
\* A directory entry of the destination: its name, whether it is a directory,
\* whether the name has the shape BU-YYYY-MM-DD (prefix, 13 characters, three
\* numeric fields of 4, 2 and 2 digits), and the date the fields spell.
BackupEntries ==
    << [name |-> "BU-2024-01-05", is_dir |-> TRUE, bu_format |-> TRUE,
        year |-> 2024, month |-> 1, day |-> 5],
       [name |-> "BU-2024-02-30", is_dir |-> TRUE, bu_format |-> TRUE,
        year |-> 2024, month |-> 2, day |-> 30],
       [name |-> "BU-2023-12-31", is_dir |-> TRUE, bu_format |-> TRUE,
        year |-> 2023, month |-> 12, day |-> 31],
       [name |-> "BU-2024-03-01", is_dir |-> FALSE, bu_format |-> TRUE,
        year |-> 2024, month |-> 3, day |-> 1],
       [name |-> "lost+found", is_dir |-> TRUE, bu_format |-> FALSE,
        year |-> 0, month |-> 0, day |-> 0] >>

\* What a path is when it is looked at.
PathKinds == {"dir", "file", "gone"}

\* The listing files collect_file_info writes, named by their content.
Contents == {"listing-1", "listing-2"}

\* The free space of the destination volume, in bytes.
FreeSpaces == {0, 5}

IsLeap(y) == (y % 4 = 0 /\ y % 100 # 0) \/ y % 400 = 0

DaysIn(y, m) ==
    IF m = 2 THEN (IF IsLeap(y) THEN 29 ELSE 28)
    ELSE IF m \in {4, 6, 9, 11} THEN 30 ELSE 31

\* datetime.strptime(date_part, "%Y-%m-%d") accepts the date.
strptime_ok(e) ==
    /\ e.year >= 1
    /\ e.month \in 1..12
    /\ e.day >= 1
    /\ e.day <= DaysIn(e.year, e.month)

\* The sort key: the text YYYY-MM-DD orders as the date does.
DatePart(e) == e.year * 10000 + e.month * 100 + e.day

\* filtered_dirs: directories named BU-YYYY-MM-DD with a real date.
IsBackupDir(e) == e.is_dir /\ e.bu_format /\ strptime_ok(e)

RECURSIVE InsertNewest(_, _)
InsertNewest(sorted, e) ==
    IF sorted = <<>> THEN <<e>>
    ELSE IF DatePart(e) > DatePart(Head(sorted)) THEN <<e>> \o sorted
    ELSE <<Head(sorted)>> \o InsertNewest(Tail(sorted), e)

RECURSIVE SortNewestFirst(_)
SortNewestFirst(entries) ==
    IF entries = <<>> THEN <<>>
    ELSE InsertNewest(SortNewestFirst(Tail(entries)), Head(entries))

RECURSIVE NamesOf(_)
NamesOf(entries) ==
    IF entries = <<>> THEN <<>>
    ELSE <<Head(entries).name>> \o NamesOf(Tail(entries))

\* _list_and_sort_directories(path): the backup directories, newest first;
\* [] when listing the path raises.
_list_and_sort_directories(path) ==
    IF ~path.listable THEN <<>>
    ELSE NamesOf(SortNewestFirst(SelectSeq(path.entries, IsBackupDir)))

\* collector.collect_file_info(directory): four values for a directory, three
\* for anything else.
collect_file_info(kind, content, file_size_total) ==
    IF kind = "dir" THEN <<TRUE, content, file_size_total, 1>>
    ELSE <<FALSE, "Invalid directory. Please try again.", 0>>

\* compare.compare_files(file1, file2): the two hashes are equal.
compare_files(file1, file2) == file1 = file2

Returns(value, emails) == [kind |-> "return", value |-> value, emails |-> emails]
Raises(error) == [kind |-> "raise", error |-> error, emails |-> <<>>]

\* a, b, c = <tuple>: Python raises ValueError unless it holds three values.
Unpacks3(tuple) == Len(tuple) = 3

\* _calculate_enough_space_available: free_space > file_size_total * .01
_calculate_enough_space_available(free_space, file_size_total) ==
    free_space * 100 > file_size_total

\* The comparison proper, both collections unpacked.
CompareCollected(ret_source, output_source, ret_destination, output_destination) ==
    IF ret_source /\ ret_destination
    THEN IF compare_files(output_source, output_destination)
         THEN Returns(FALSE, <<"Backup not run.">>)
         ELSE Returns(TRUE, <<>>)
    ELSE Returns(FALSE, <<>>)

CompareWithSource(w, dest, src) ==
    IF ~Unpacks3(src) THEN Raises("ValueError")
    ELSE CompareCollected(src[1], src[2], dest[1], dest[2])

\* shutil.disk_usage raises for a path that does not exist.
CheckSpace(w, dest) ==
    IF w.recent_kind = "gone" THEN Raises("FileNotFoundError")
    ELSE IF ~_calculate_enough_space_available(w.free_space, dest[3])
    THEN Returns(FALSE, <<>>)
    ELSE CompareWithSource(w, dest, collect_file_info(w.source_kind, w.source_content, w.source_size))

AfterDestination(w, dest) ==
    IF ~Unpacks3(dest) THEN Raises("ValueError") ELSE CheckSpace(w, dest)

_has_data_changed_since_last_backup(w) ==
    AfterDestination(w, collect_file_info(w.recent_kind, w.backup_content, w.backup_size))

_backup_needed(w) ==
    IF _list_and_sort_directories(w.destination) = <<>>
    THEN Returns(TRUE, <<>>)
    ELSE _has_data_changed_since_last_backup(w)

RECURSIVE ListingOf(_, _)
ListingOf(picked, i) ==
    IF i > Len(BackupEntries) THEN <<>>
    ELSE (IF i \in picked THEN <<BackupEntries[i]>> ELSE <<>>)
         \o ListingOf(picked, i + 1)

\* The destinations: every choice of entries, and one os.listdir fails on.
Destinations ==
    {[listable |-> TRUE, entries |-> ListingOf(picked, 1)] :
        picked \in SUBSET (1..Len(BackupEntries))}
    \cup {[listable |-> FALSE, entries |-> <<>>]}

\* The world one call sees: the destination's listing, what the newest backup
\* and the source are when they are collected, their content, the free space.
InitBackup ==
    /\ stage = "backup"
    /\ \E destination \in Destinations, recent_kind \in PathKinds,
          source_kind \in {"dir", "gone"}, source_content \in Contents,
          free_space \in FreeSpaces :
           call = [destination |-> destination, recent_kind |-> recent_kind,
                   backup_content |-> "listing-1", backup_size |-> 100,
                   source_size |-> 100,
                   source_kind |-> source_kind,
                   source_content |-> source_content,
                   free_space |-> free_space]
    /\ returned = NoReturn
    /\ args = <<>>
    /\ manifest = <<>>
    /\ fs = <<>>
    /\ loc = <<>>
    /\ InitCommon_store

\* result = _backup_needed(source, destination)
BackupNeeded ==
    /\ stage = "backup"
    /\ returned = NoReturn
    /\ returned' = <<_backup_needed(call)>>
    /\ UNCHANGED <<inputs, db, call, fs, cursor_file, pc, loc, invocations,
                   exit_status, verify_outs, results_out, dedupe_outs, before,
                   history>>

SpecBackup == InitBackup /\ [][BackupNeeded]_vars

HasPreviousBackup == _list_and_sort_directories(call.destination) # <<>>

SourceCollected == call.source_kind = "dir"

SameContent == call.source_content = call.backup_content

\* C19: _backup_needed returns True when the destination holds no previous
\* backup; with a previous backup it returns False after exactly one
\* "Backup not run." notification when source and latest backup compare
\* equal, True when they differ, and True when collecting the source fails.
C19_BackupNeeded ==
    (stage = "backup" /\ returned # NoReturn) =>
        /\ ~HasPreviousBackup => returned[1] = Returns(TRUE, <<>>)
        /\ (HasPreviousBackup /\ SourceCollected /\ SameContent) =>
               returned[1] = Returns(FALSE, <<"Backup not run.">>)
        /\ (HasPreviousBackup /\ SourceCollected /\ ~SameContent) =>
               (returned[1].kind = "return" /\ returned[1].value = TRUE)
        /\ (HasPreviousBackup /\ ~SourceCollected) =>
               (returned[1].kind = "return" /\ returned[1].value = TRUE)

-----------------------------------------------------------------------------
\* Apply-Deletion over manifests whose source paths come with and without a
\* drive.  \2020\a.jpg is rooted and has no drive; 2020\a.jpg is relative.
ApplyRooted == [ApplyA EXCEPT !.drive = <<>>]
ApplyRelative == [ApplyA EXCEPT !.drive = <<>>, !.rooted = FALSE]

ApplyPathDisk ==
    [p \in {ApplyA, ApplyB, ApplyRooted, ApplyRelative} |->
        IF p = ApplyB THEN File(1, "h2", TRUE) ELSE File(1, "h1", TRUE)]

ApplyPathRows ==
    <<[run_id |-> "r1", verification_status |-> "verified", source_path |-> ApplyA],
      [run_id |-> "r1", verification_status |-> "verified", source_path |-> ApplyRooted],
      [run_id |-> "r1", verification_status |-> "verified", source_path |-> ApplyRelative],
      [run_id |-> "r1", verification_status |-> "unverified", source_path |-> ApplyB],
      [run_id |-> "r2", verification_status |-> "verified", source_path |-> ApplyGone]>>

InitApplyPaths ==
    /\ stage = "apply"
    /\ args \in ApplyArgs
    /\ manifest \in Selections(ApplyPathRows, MaxRows)
    /\ fs = ApplyPathDisk
    /\ loc = [idx |-> 0, start_offset |-> 0, processed |-> 0, next_cursor |-> 0]
    /\ InitCommon

SpecApplyPaths == InitApplyPaths /\ [][NextApply]_vars

\* The path lies under the --quarantine-root.
InQuarantineTree(p) ==
    /\ p.drive = QuarantineRoot.drive
    /\ p.rooted
    /\ Len(p.dir) >= Len(QuarantineRoot.dir)
    /\ SubSeq(p.dir, 1, Len(QuarantineRoot.dir)) = QuarantineRoot.dir

\* The step removes the file at p and leaves everything else as it was.
Deleted(p) ==
    /\ p \in DOMAIN fs
    /\ fs' = RemoveFile(fs, p)

\* The step takes the file at p to a free place under the quarantine root.
MovedToQuarantine(p) ==
    /\ p \in DOMAIN fs
    /\ \E t \in DOMAIN fs' \ DOMAIN fs :
           /\ InQuarantineTree(t)
           /\ fs' = MoveFile(fs, p, t)

\* What a step of Apply-Deletion may do to the filesystem.
DeletesOrMovesSafely ==
    (stage = "apply" /\ fs' # fs)
    => /\ pc = "loop"
       /\ loc.idx < Len(manifest)
       /\ manifest[loc.idx + 1].verification_status = "verified"
       /\ ~args.dry_run
       /\ IF args.delete_permanently /\ args.yes_really_delete
          THEN Deleted(manifest[loc.idx + 1].source_path)
          ELSE MovedToQuarantine(manifest[loc.idx + 1].source_path)

\* C20: Apply-Deletion changes the filesystem only for a verified row; it
\* deletes the row's file only with --delete-permanently and
\* --yes-really-delete and without --dry-run; in every other case the file
\* is moved into the quarantine tree and not deleted.
C20_DeleteOnlyWhenConfirmed == [][DeletesOrMovesSafely]_vars

-----------------------------------------------------------------------------
\* Dedupe over verified manifests in which a destination path may appear in
\* two rows of one group.
DedupeRepeatRows ==
    <<DedupeRow("r1", "verified", H1, TripA),
      DedupeRow("r1", "verified", H1, DupImg),
      DedupeRow("r1", "verified", H1, TripA),
      DedupeRow("r1", "verified", H2, MiscTrip),
      DedupeRow("r2", "verified", H1, DupImg)>>

InitDedupeRepeats ==
    /\ stage = "dedupe"
    /\ args \in DedupeArgs
    /\ manifest \in Selections(DedupeRepeatRows, MaxDedupeRows)
    /\ fs = DedupeDisk
    /\ loc = [idx |-> 0, start_offset |-> 0, processed |-> 0, next_cursor |-> 0,
              actions |-> <<>>, keep_records |-> <<>>,
              keep_written_for_key |-> {}]
    /\ InitCommon

SpecDedupeRepeats == InitDedupeRepeats /\ [][NextDedupe]_vars

\* The kept file of a keep row is where it was before Dedupe ran.
KeptInPlace(keep_row) ==
    Lookup(DedupeDisk, keep_row.kept_destination_path).exists
    => Lookup(fs, keep_row.kept_destination_path) =
           Lookup(DedupeDisk, keep_row.kept_destination_path)

\* C21: Dedupe never moves to quarantine a path it records as the kept
\* destination of a group, also when a destination path appears in more
\* than one verified row of the group.
C21_KeptFileStays ==
    stage = "dedupe" => \A i \in 1..Len(keep_out) : KeptInPlace(keep_out[i])

-----------------------------------------------------------------------------
\* Quarantine moves that meet a name already taken in the quarantine tree:
\* two duplicates named IMG_1.jpg in different folders of the year 2020,
\* and an IMG_1.jpg quarantined earlier.
Img1 == <<"I", "M", "G", "_", "1">>
Img1Top == InLib(Dir2020, Img1)
Img1Sub == WinPath(<<"D", ":">>, <<<<"L", "i", "b">>, Dir2020, <<"s", "u", "b">>>>, Img1, ExtJpg)
Img1Quarantined == WinPath(<<"Q", ":">>, <<<<"q">>, Dir2020>>, Img1, ExtJpg)

CollideDisk ==
    [p \in {TripA, Img1Top, Img1Sub, Img1Quarantined} |->
        IF p = Img1Quarantined THEN File(2, "h3", TRUE) ELSE File(1, "h1", TRUE)]

CollideRows ==
    <<DedupeRow("r1", "verified", H1, TripA),
      DedupeRow("r1", "verified", H1, Img1Top),
      DedupeRow("r1", "verified", H1, Img1Sub),
      DedupeRow("r2", "verified", H1, Img1Top)>>

InitDedupeCollide ==
    /\ stage = "dedupe"
    /\ args \in DedupeArgs
    /\ manifest \in Selections(CollideRows, MaxDedupeRows)
    /\ fs = CollideDisk
    /\ loc = [idx |-> 0, start_offset |-> 0, processed |-> 0, next_cursor |-> 0,
              actions |-> <<>>, keep_records |-> <<>>,
              keep_written_for_key |-> {}]
    /\ InitCommon

InitQuarantine == InitDedupeCollide \/ InitApply

SpecQuarantine == InitQuarantine /\ [][NextGated]_vars

\* The step takes one file to a path where nothing was, and leaves every
\* other file where and as it was.
MovedToFreePath ==
    \E p \in DOMAIN fs : \E t \in DOMAIN fs' \ DOMAIN fs :
        fs' = MoveFile(fs, p, t)

\* The step removes one file and leaves every other file as it was.
UnlinkedOne == \E p \in DOMAIN fs : fs' = RemoveFile(fs, p)

NoOverwrite ==
    (stage \in {"dedupe", "apply"} /\ fs' # fs)
    => \/ MovedToFreePath
       \/ stage = "apply" /\ args.delete_permanently /\ UnlinkedOne

\* C22: no quarantine move of Dedupe or Apply-Deletion overwrites a file:
\* the target of a move is a path where nothing was, so every file that
\* was in the quarantine tree stays, and two quarantined files never share
\* a destination.
C22_NoQuarantineOverwrite == [][NoOverwrite]_vars

WithSuffix(path, k) == [path EXCEPT !.stem = @ \o <<" ", "(", Digits[k + 1], ")">>]

\* Both duplicates named IMG_1.jpg were quarantined next to the IMG_1.jpg
\* that was there, or Apply-Deletion quarantined two files named a.jpg.
C22_Witness ==
    \/ /\ stage = "dedupe"
       /\ Lookup(fs, Img1Quarantined) = CollideDisk[Img1Quarantined]
       /\ Lookup(fs, WithSuffix(Img1Quarantined, 1)).exists
       /\ Lookup(fs, WithSuffix(Img1Quarantined, 2)).exists
       /\ invocations = 2
    \/ /\ stage = "apply"
       /\ Lookup(fs, JoinPath(QuarantineRoot, _relative_to_root(ApplyA))).exists
       /\ Lookup(fs, WithSuffix(JoinPath(QuarantineRoot, _relative_to_root(ApplyA)), 1)).exists

\* The quarantine path recorded for a source path is the quarantine root
\* joined with the source's folders below its root, and is another path.
QuarantinedUnderRoot(source_path, quarantine_path) ==
    /\ InQuarantineTree(quarantine_path)
    /\ quarantine_path.dir = QuarantineRoot.dir \o source_path.dir
    /\ quarantine_path # source_path

\* C23: the quarantine destination Apply-Deletion computes for an absolute
\* source path, with or without a drive letter, is the quarantine root
\* joined with the path below its root: it lies inside the quarantine root
\* and is not the source path.
C23_QuarantineInsideRoot ==
    stage = "apply" =>
        \A i \in 1..Len(results_out) :
            (/\ results_out[i].action_taken = "quarantine"
             /\ results_out[i].source_path.rooted)
            => QuarantinedUnderRoot(results_out[i].source_path,
                                    results_out[i].destination_quarantine_path)

-----------------------------------------------------------------------------
\* The outcomes the results manifest of Apply-Deletion may name.
ApplyOutcomes ==
    {"quarantine", "delete", "missing", "error",
     "dry-run-quarantine", "dry-run-delete"}

\* The results row written for the k-th row of the running invocation.
ResultOfRow(k) == results_out[Len(results_out) - loc.processed + k]

\* ApplyGone is on disk in no state, so a verified row naming it is a row
\* whose source file no longer exists.
RecordedAsProcessed(row, result) ==
    /\ result.run_id = row.run_id
    /\ result.source_path = row.source_path
    /\ row.verification_status = "verified" =>
           /\ result.action_taken \in ApplyOutcomes
           /\ row.source_path = ApplyGone => result.action_taken = "missing"

\* C24: Apply-Deletion appends one results row for each row it processes,
\* in manifest order, with an outcome of quarantine, delete, missing, error
\* or a dry-run variant; a row whose source file no longer exists is
\* recorded as missing, and processing goes on with the next row.
C24_OneResultPerRow ==
    (stage = "apply" /\ invocations >= 1 /\ LastExit \in {"running", "ok"})
    => /\ Len(results_out) >= loc.processed
       /\ \A k \in 1..loc.processed :
              RecordedAsProcessed(manifest[loc.start_offset + k], ResultOfRow(k))

-----------------------------------------------------------------------------
\* The group of a manifest row or of an output row of Dedupe: the year
\* (scope year) or "global", and the hash.
GroupOfRow(row) ==
    <<IF args.scope = "year"
      THEN _parse_year_from_path(row.destination_path, ArchiveRoot)
      ELSE Global,
      row.destination_hash>>

GroupOfOutput(out) == <<IF args.scope = "year" THEN out.year ELSE Global, out.hash>>

\* The verified rows of the manifest that belong to a group.
VerifiedMembers(group) ==
    {i \in 1..Len(manifest) :
        /\ manifest[i].verification_status = "verified"
        /\ GroupOfRow(manifest[i]) = group}

AllCompletedDedupe ==
    /\ stage = "dedupe"
    /\ args.state_file
    /\ pc = "idle"
    /\ invocations >= 1
    /\ \A i \in 1..invocations : exit_status[i] = "ok"

OneKeepRowPerGroup ==
    /\ \A i, j \in 1..Len(keep_out) :
           GroupOfOutput(keep_out[i]) = GroupOfOutput(keep_out[j]) => i = j
    /\ \A i \in 1..Len(keep_out) :
           /\ Cardinality(VerifiedMembers(GroupOfOutput(keep_out[i]))) > 1
           /\ \E j \in 1..Len(dupes_out) :
                  GroupOfOutput(dupes_out[j]) = GroupOfOutput(keep_out[i])

OneActionRowPerDuplicate ==
    /\ Len(dupes_out) = cursor_file.cursor
    /\ \A i, j \in 1..Len(dupes_out) :
           dupes_out[i].duplicate_destination_path =
               dupes_out[j].duplicate_destination_path => i = j
    /\ \A j \in 1..Len(dupes_out) :
           /\ \E m \in VerifiedMembers(GroupOfOutput(dupes_out[j])) :
                  manifest[m].destination_path =
                      dupes_out[j].duplicate_destination_path
           /\ \E i \in 1..Len(keep_out) :
                  /\ GroupOfOutput(keep_out[i]) = GroupOfOutput(dupes_out[j])
                  /\ keep_out[i].kept_destination_path #
                         dupes_out[j].duplicate_destination_path

\* C25: after completed Dedupe invocations that share a state file and
\* read the same manifest, the keep manifest holds one row for each group
\* of more than one verified member with a processed duplicate, and the
\* action manifest one row for each processed non-canonical member: no
\* duplicate twice, no second keep row, nothing for a group of one member
\* or for an unverified row.
C25_OneRowPerDecision ==
    AllCompletedDedupe => (OneKeepRowPerGroup /\ OneActionRowPerDuplicate)

\* Two invocations with --limit 1 over one group of three members: the
\* second resumes at the second duplicate and writes no second keep row.
C25_Witness ==
    /\ AllCompletedDedupe
    /\ invocations = 2
    /\ args.limit = 1
    /\ Len(dupes_out) = 2
    /\ Len(keep_out) = 1
    /\ GroupOfOutput(dupes_out[1]) = GroupOfOutput(dupes_out[2])

-----------------------------------------------------------------------------
\* An entry no other entry of the group beats: none scores higher, and none
\* of the same score has a smaller path.
BestOfGroup(entries, best) ==
    /\ \E i \in 1..Len(entries) : entries[i].dest_path = best.dest_path
    /\ \A i \in 1..Len(entries) :
           /\ _score_destination(entries[i].dest_path)
                  <= _score_destination(best.dest_path)
           /\ _score_destination(entries[i].dest_path)
                  = _score_destination(best.dest_path)
              => ~StrLess(PathStr(entries[i].dest_path), PathStr(best.dest_path))

-----------------------------------------------------------------------------
\* The per-file failures logged so far by the running scan.
FailuresOfRun(log) == {h \in log : h.run = invocations /\ h.idx # 0}

\* The threshold of --max-errors is set and the failures have reached it.
ThresholdReached(log) ==
    args.max_errors > 0 /\ Cardinality(FailuresOfRun(log)) >= args.max_errors

\* The database itself raised during this scan.
DatabaseRaised(log) ==
    [run |-> invocations, idx |-> 0, outcome |-> "database"] \in log

\* A step of a scan that is no dry run: a walk that met failures below the
\* threshold goes on to the next root, and the scan ends failed, with the
\* root's changes rolled back, when the threshold is reached and ok when it
\* is not.
FailuresCountedStep ==
    (stage = "scan" /\ pc = "roots" /\ ~args.dry_run)
    => /\ ThresholdReached(history')
          => /\ pc' = "idle"
             /\ db'.runs[loc.run_id].status = "failed"
             /\ db'.files = db.files
             /\ db'.members = db.members
             /\ db'.hash_groups = db.hash_groups
       /\ (pc' = "idle" /\ ~ThresholdReached(history') /\ ~DatabaseRaised(history'))
          => db'.runs[loc.run_id].status = "ok"

\* C27: every per-file failure of a scan (stat, hash or another exception
\* on one file) is skipped and counted; when a positive --max-errors is
\* reached by the count the scan aborts, the changes of the root being
\* scanned are rolled back and the Run ends failed; below the threshold the
\* Run ends ok.
C27_FailuresCounted == [][FailuresCountedStep]_vars

-----------------------------------------------------------------------------
\* scan.py, lines 402-412: hashing on a pool of worker threads.
\*
\* The pending hashes of a root are submitted to the executor; a worker
\* takes the oldest queued item and runs hash_file on it; the coordinating
\* thread takes the completed futures one by one, in the order they
\* complete, and applies each digest to the store.
MaxWorkers == 2   \* largest --workers

\* The files queued for hashing: pending_hashes in the order of the walk.
PoolItem(n) ==
    [file_id |-> n, n |-> n, role |-> RoleOf(ScanRoots[ScanFiles[n].root_id])]

RECURSIVE PoolItems(_, _)
PoolItems(S, n) ==
    IF n > Len(ScanFiles) THEN <<>>
    ELSE (IF n \in S THEN <<PoolItem(n)>> ELSE <<>>) \o PoolItems(S, n + 1)

\* A store in which no file was hashed yet.
RECURSIVE Unhashed(_, _)
Unhashed(files, k) ==
    IF k > Len(files) THEN <<>>
    ELSE <<[files[k] EXCEPT !.sha256 = NoDigest]>> \o Unhashed(files, k + 1)

NeverHashed(store) ==
    [store EXCEPT !.files = Unhashed(@, 1), !.hash_groups = <<>>, !.members = {}]

InitPool ==
    /\ stage = "pool"
    /\ \E workers \in 1..MaxWorkers : args = [workers |-> workers]
    /\ \E hashed_before \in BOOLEAN :
           db = [IF hashed_before
                 THEN StoreOf(WithFileIds(RowsOf(1..Len(ScanFiles), 1), 1))
                 ELSE NeverHashed(StoreOf(WithFileIds(RowsOf(1..Len(ScanFiles), 1), 1)))
                 EXCEPT !.runs = begin_run(@)]
    /\ \E content \in [1..Len(ScanFiles) -> {OnDisk(H1, 1), OnDisk(H2, 2)}] :
           fs = [base |-> {1, 2}, files |-> content]
    /\ \E S \in SUBSET (1..Len(ScanFiles)),
          outcomes \in [1..Len(ScanFiles) -> {"ok", "unreadable"}] :
           /\ S # {}
           /\ \A n \in 1..Len(ScanFiles) : n \notin S => outcomes[n] = "ok"
           /\ loc = [pending |-> PoolItems(S, 1), outcomes |-> outcomes,
                     run_id |-> 2,
                     future |-> [p \in 1..Cardinality(S) |-> "queued"],
                     result |-> [p \in 1..Cardinality(S) |-> <<>>]]
    /\ before = db
    /\ manifest = <<>>
    /\ cursor_file = NoCursor
    /\ pc = "hashing"
    /\ invocations = 1
    /\ exit_status = <<"running">>
    /\ verified_out = <<>>
    /\ unverified_out = <<>>
    /\ results_out = <<>>
    /\ keep_out = <<>>
    /\ dupes_out = <<>>
    /\ history = {}
    /\ call = NoCall
    /\ returned = NoReturn

Futures(state) == {p \in 1..Len(loc.pending) : loc.future[p] = state}

PoolFrame ==
    UNCHANGED <<inputs, pure, fs, cursor_file, invocations, exit_status,
                verify_outs, results_out, dedupe_outs, before, history>>

\* A free worker takes the oldest queued item.
WorkerStart ==
    /\ stage = "pool"
    /\ pc = "hashing"
    /\ Cardinality(Futures("running")) < args.workers
    /\ \E p \in Futures("queued") :
           /\ \A q \in Futures("queued") : p <= q
           /\ loc' = [loc EXCEPT !.future[p] = "running"]
    /\ UNCHANGED <<db, pc>>
    /\ PoolFrame

\* A worker returns from hash_file: the future is completed with the
\* digest or the error.
WorkerFinish ==
    /\ stage = "pool"
    /\ pc = "hashing"
    /\ \E p \in Futures("running") :
           loc' = [loc EXCEPT
                      !.future[p] = "done",
                      !.result[p] = hash_file(fs.files[loc.pending[p].n],
                                              loc.outcomes[loc.pending[p].n])]
    /\ UNCHANGED <<db, pc>>
    /\ PoolFrame

\* The body of the as_completed loop, lines 406-412, for one completed
\* future.
CoordinatorApply ==
    /\ stage = "pool"
    /\ pc = "hashing"
    /\ \E p \in Futures("done") :
           /\ db' = HashItem(db, loc.pending[p], loc.result[p], loc.run_id)
           /\ loc' = [loc EXCEPT !.future[p] = "applied"]
    /\ UNCHANGED pc
    /\ PoolFrame

\* Every future was taken: the executor shuts down and the root is
\* committed, line 428.
PoolCommit ==
    /\ stage = "pool"
    /\ pc = "hashing"
    /\ Futures("applied") = 1..Len(loc.pending)
    /\ pc' = "committed"
    /\ UNCHANGED <<db, loc>>
    /\ PoolFrame

NextPool ==
    \/ WorkerStart
    \/ WorkerFinish
    \/ CoordinatorApply
    \/ PoolCommit

SpecPool == InitPool /\ [][NextPool]_vars

\* The rows of a table, without their order.
RowSet(rows) == {rows[i] : i \in 1..Len(rows)}

\* The store the single-threaded loop of lines 414-421 leaves.
SingleThreaded == HashFrom(before, loc.pending, 1, fs, loc.outcomes, loc.run_id)

SameContents(store, other) ==
    /\ store.files = other.files
    /\ store.members = other.members
    /\ RowSet(store.hash_groups) = RowSet(other.hash_groups)
    /\ store.runs = other.runs

\* A step that changes the store applies one completed digest.
SingleWriter ==
    db' # db
    => \E p \in Futures("done") :
           /\ db' = HashItem(db, loc.pending[p], loc.result[p], loc.run_id)
           /\ loc'.future = [loc.future EXCEPT ![p] = "applied"]

PoolStep ==
    stage = "pool"
    => /\ SingleWriter
       /\ pc' = "committed" => SameContents(db', SingleThreaded')

\* C28: with a worker pool the workers only compute digests; the store is
\* written by the coordinating thread, one completed digest at a time, and
\* when the hashing is done its file hashes, hash groups and memberships
\* are those of the single-threaded loop, whatever the order in which the
\* workers complete.
C28_PoolMatchesSingleThread == [][PoolStep]_vars

\* Two workers: the second item was applied while the first was still
\* being hashed, and both digests ended in the store.
C28_Witness ==
    /\ stage = "pool"
    /\ pc = "committed"
    /\ args.workers = 2
    /\ Len(loc.pending) >= 2
    /\ db.hash_groups # SingleThreaded.hash_groups
    /\ Cardinality(RowSet(db.hash_groups)) = 2

-----------------------------------------------------------------------------
\* Scans with a drive that is not mounted: every file has its row in the
\* store, and the base path of one of the two active roots is missing.
InitUnmounted ==
    /\ stage = "scan"
    /\ \E base \in {{1}, {2}} :
           /\ db = StoreOf(WithFileIds(RowsOf(1..Len(ScanFiles), 1), 1))
           /\ fs = [base |-> base,
                    files |-> [n \in 1..Len(ScanFiles) |-> OnDisk(H1, 1)]]
    /\ args = <<>>
    /\ manifest = <<>>
    /\ loc = <<>>
    /\ cursor_file = NoCursor
    /\ pc = "idle"
    /\ invocations = 0
    /\ exit_status = <<>>
    /\ verified_out = <<>>
    /\ unverified_out = <<>>
    /\ results_out = <<>>
    /\ keep_out = <<>>
    /\ dupes_out = <<>>
    /\ before = db
    /\ history = {}
    /\ call = NoCall
    /\ returned = NoReturn

SpecUnmounted == InitUnmounted /\ [][NextScan]_vars

\* The File rows of a root.
FilesOfRoot(store, root_id) ==
    {store.files[k] : k \in {j \in 1..Len(store.files) :
                                store.files[j].root_id = root_id}}

\* The root main() hands to scan_root next has no base path.
NextRootUnmounted ==
    /\ stage = "scan"
    /\ pc = "roots"
    /\ loc.i < Len(loc.roots)
    /\ loc.roots[loc.i + 1].root_id \notin fs.base

SkipsUnmounted ==
    NextRootUnmounted
    => /\ FilesOfRoot(db', loc.roots[loc.i + 1].root_id)
              = FilesOfRoot(db, loc.roots[loc.i + 1].root_id)
       /\ db'.hash_groups = db.hash_groups
       /\ db'.members = db.members
       /\ pc' = "roots"
       /\ loc'.roots = loc.roots
       /\ loc'.i = loc.i + 1

\* C29: the scan of a root whose base path does not exist changes no File
\* row of the root (none is marked missing, none is rehashed), and the scan
\* goes on with the next root.
C29_UnmountedRootUntouched == [][SkipsUnmounted]_vars

\* The first root was skipped with its rows active and last seen in an
\* earlier run, and the second root was scanned in this run.
C29_Witness ==
    /\ stage = "scan"
    /\ pc = "roots"
    /\ ~args.dry_run
    /\ loc.i = 2
    /\ loc.walked
    /\ loc.roots[1].root_id \notin fs.base
    /\ FilesOfRoot(db, loc.roots[1].root_id) # {}
    /\ \A f \in FilesOfRoot(db, loc.roots[1].root_id) :
           f.status = Active /\ f.last_seen_run_id < loc.run_id
    /\ \E f \in FilesOfRoot(db, loc.roots[2].root_id) :
           f.last_seen_run_id = loc.run_id

-----------------------------------------------------------------------------
\* The rule-tag deriver on a store that the scanner and the resolver
\* change between its runs.
TagStores ==
    {TagStore,
     \* the resolver chose a canonical file for S1 and recorded its original
     [TagStore EXCEPT
         !.groups[1].canonical_library_file_id = 1,
         !.prov = {[sha256 |-> S1, original_file_id |-> 2]}],
     \* S1 has no copy left but the original
     [TagStore EXCEPT
         !.members = {[sha256 |-> S1, file_id |-> 2, role |-> "original"],
                      [sha256 |-> S2, file_id |-> 3, role |-> "library"]}],
     \* S2 has a second copy, in staging
     [TagStore EXCEPT
         !.members = {[sha256 |-> S1, file_id |-> 2, role |-> "original"],
                      [sha256 |-> S2, file_id |-> 1, role |-> "staging"],
                      [sha256 |-> S2, file_id |-> 3, role |-> "library"]}],
     \* the canonical reference of S2 was cleared
     [TagStore EXCEPT !.groups[2].canonical_library_file_id = NoFile]}

\* Between two runs the store changes.
StoreChange ==
    /\ stage = "tags"
    /\ pc = "idle"
    /\ invocations < MaxInvocations
    /\ \E store \in TagStores : store # fs /\ fs' = store
    /\ UNCHANGED <<inputs, pure, db, cursor_file, pc, loc, invocations,
                   exit_status, verify_outs, results_out, dedupe_outs,
                   history, before>>

NextStateTags ==
    \/ NextTags
    \/ StoreChange

SpecStateTags == InitTags /\ [][NextStateTags]_vars

\* The state-tag assignments of a table of assignments.
StateRows(rows, rule_tags) ==
    {r \in rows : \E k \in 1..Len(STATE_TAGS) : rule_tags[r.tag_id] = STATE_TAGS[k]}

\* The hash group is assigned the state tag.
Assigned(sha256, tag) ==
    \E r \in db.hash_group_rule_tags :
        r.sha256 = sha256 /\ db.rule_tags[r.tag_id] = tag

\* The state section of a run that writes has been executed.
StateSectionDone ==
    /\ stage = "tags"
    /\ pc \in {"ingest", "report"}
    /\ ~args.dry_run
    /\ args.scope \in {"state", "both"}

\* C30: after the state section of a run that is no dry run, the state-tag
\* assignments are exactly the ones derived from the role counts, the
\* canonical reference and the provenance rows the store holds now, with
\* none left from an earlier run; and a hash group is assigned needs_review
\* exactly when it is assigned originals_only, multi_library_candidates or
\* provenance_missing.
C30_StateTagsRebuilt ==
    StateSectionDone
    => /\ StateRows(db.hash_group_rule_tags, db.rule_tags)
              = _derive_state_tag_rows(_query_state_facts(fs), db.rule_tags,
                                       loc.now)
       /\ \A g \in 1..Len(fs.groups) :
              Assigned(fs.groups[g].sha256, "needs_review")
              <=> \E tag \in {"originals_only", "multi_library_candidates",
                              "provenance_missing"} :
                      Assigned(fs.groups[g].sha256, tag)

\* The second run rebuilt the state tags of a store that changed after the
\* first: S1 was assigned needs_review and provenance_missing before the
\* run and is assigned neither now, and it got has_library_canonical.
C30_Witness ==
    /\ StateSectionDone
    /\ invocations = 2
    /\ \E r \in before.hash_group_rule_tags :
           r.sha256 = S1 /\ before.rule_tags[r.tag_id] = "needs_review"
    /\ \E r \in before.hash_group_rule_tags :
           r.sha256 = S1 /\ before.rule_tags[r.tag_id] = "provenance_missing"
    /\ ~Assigned(S1, "needs_review")
    /\ ~Assigned(S1, "provenance_missing")
    /\ Assigned(S1, "has_library_canonical")

=============================================================================
